---- MODULE Spec2Model ----
(***************************************************************************)
(* A model of the Jubilee motion controller of the sonication station:     *)
(* the machine-model synchronizer thread and its recursive patch merge,    *)
(* the guarded move primitives, the board reset with its reconnect loop,   *)
(* and the idle wait that follows the synchronizer's schedule.             *)
(*                                                                         *)
(* Seven specifications share the variables:                               *)
(*   SpecPatch  _apply_patch as a pure function of (document, patch);      *)
(*   Spec       the station's controller (src/sonication_station): the     *)
(*              caller's thread, the synchronizer thread and the firmware, *)
(*              interleaved, with time abstracted away;                    *)
(*   SpecHome   the same controller, connected, with the firmware's        *)
(*              positioning mode, homing, and fair scheduling;             *)
(*   SpecSw     the socket controller (src/software): its worker on a      *)
(*              discrete clock, its reset with the reconnect loop, and     *)
(*              Labmate's XY move on top of it;                            *)
(*   SpecTime   the station's synchronizer on its schedule and             *)
(*              wait_until_idle, on a discrete clock;                      *)
(*   SpecWell   the well-position mappers as pure functions of the plate   *)
(*              and the well;                                              *)
(*   SpecStation  SonicationStation's protocol executor with sonicate_well *)
(*              and clean_sonicator.                                       *)
(***************************************************************************)
EXTENDS Integers, Sequences, FiniteSets, TLC

VARIABLES
    \* ---- SpecPatch
    ppc,              \* "pick" | "done"
    pdoc,             \* the document _apply_patch is given (object_model_ref)
    ppatch,           \* the patch
    pres,             \* the document after the call, or Err when the call raised
    \* ---- Spec: the controller object
    simulated,        \* constructor argument
    safe_z,           \* deck_config["safe_z"] is not None
    machine_model,    \* the local mirror of the firmware's object model
    keep_subscribing, \* the synchronizer's stop flag
    absolute_moves,   \* cached positioning mode
    \* ---- Spec: the synchronizer thread (update_machine_model_worker)
    pcSync,           \* "none" | "start" | "loop" | "recv" | "apply" | "update" |
                      \* "sleep" | "done" | "dead"
    syncPatch,        \* machine_model_patch of the current iteration
    syncTodo,         \* top-level keys of the patch apply_patch has not reached yet
    syncBefore,       \* machine_model when the current iteration received its patch
    iterDone,         \* the last synchronizer step completed a loop iteration
    \* ---- Spec: the firmware and its state feed
    fw,               \* [homed, status, tool]: the firmware's own state
    fwView,           \* the state the feed has reported to the subscriber so far
    \* ---- Spec: the caller's thread
    callerOp,         \* the public operation in progress or last finished
    callerSteps,      \* what is left of it, as a sequence of steps
    result,           \* "none" | "running" | "ok" | the exception raised
    sent,             \* transport writes of callerOp, in order
    response,         \* the firmware's reply to the last of them; "none" before
    readMidMerge,     \* callerOp read machine_model while a merge was under way
    boardReset,       \* reset() has ended after M999 and no home command followed
    \* ---- SpecSw: the socket controller (src/software)
    command_socket,   \* "none" | "open" | "unconnected" | "closed"
    attempts,         \* connect() calls made by the retry loop of reset()
    update_counter,   \* updates stored by the worker
    \* ---- SpecTime and SpecSw: the clock and the synchronizer's schedule;
    \* ---- SpecTime: wait_until_idle
    now,              \* time.perf_counter(), in ticks
    wake_time,        \* next scheduled update of the synchronizer; -1 is None
                      \* (socket controller: when the worker's sleep ends)
    model_update_timestamp,  \* changes with every update stored
    start_time,       \* when the synchronizer began its current iteration
    wpc,              \* "idle" | "enter" | "asleep" | "spin" | "check"
    start_wait_time,  \* local of wait_until_idle
    timeout,          \* argument of wait_until_idle
    last_model_update,  \* local of _sleep_until_next_update
    sleep_until,      \* when the caller's time.sleep(sleep_interval) ends
    checks,           \* evaluations of is_busy by wait_until_idle so far
    firstCheckAt,     \* when wait_until_idle first evaluated is_busy; -1 before
    checkedStatus,    \* the status its last evaluation of is_busy read
    missedDeadline,   \* the synchronizer has reported a missed update deadline
    \* ---- SpecWell: the well-position mappers
    mpc,              \* "pick" | "done"
    plate_config,     \* the plate's entry of the deck configuration
    row_letter,       \* arguments of sonicate_well
    column_index,
    well,             \* what SonicationStation._get_well_position gave
    labmate_well,     \* what Labmate._get_well_position gave
    \* ---- SpecStation: SonicationStation's protocol executor
    deck_config,      \* [safe_z, plates, cleaning_config]
    currentTool,      \* machine_model['state']['currentTool']
    axes_homed,       \* every axis of the mirror is flagged homed
    protocol,         \* the list execute_protocol was called with
    stack,            \* the execute_protocol calls in progress, outermost first
    executed,         \* how often each step of protocol has been invoked
    cleaned,          \* the same for the steps of the cleaning protocol,
                      \* counted from the last entry into clean_sonicator
    issued,           \* tool changes, motion commands and sonications, in order
    ended             \* "none" | "running" | "ok" | the exception raised

patchVars == <<ppc, pdoc, ppatch, pres>>
objVars == <<simulated, safe_z, machine_model, keep_subscribing, absolute_moves>>
syncVars == <<pcSync, syncPatch, syncTodo, syncBefore, iterDone>>
fwVars == <<fw, fwView>>
callerVars == <<callerOp, callerSteps, result, sent, response, readMidMerge,
                boardReset>>
ctlVars == <<objVars, syncVars, fwVars, callerVars>>
swVars == <<command_socket, attempts, update_counter>>
clockVars == <<now, wake_time, model_update_timestamp, start_time, missedDeadline>>
waitVars == <<wpc, start_wait_time, timeout, last_model_update, sleep_until,
              checks, firstCheckAt, checkedStatus>>
timeVars == <<clockVars, waitVars>>

wellVars == <<mpc, plate_config, row_letter, column_index, well, labmate_well>>
stationVars == <<deck_config, currentTool, axes_homed, protocol, stack,
                 executed, cleaned, issued, ended>>
deckVars == <<wellVars, stationVars>>

vars == <<patchVars, ctlVars, swVars, timeVars, deckVars>>

(***************************************************************************)
(* JSON values as json.loads builds them.  Every value carries its Python  *)
(* type in t: "scalar" (int, float, bool, str, None: v is its text),       *)
(* "map" (dict: v is a function on its keys), "seq" (list: v is a          *)
(* sequence).                                                              *)
(***************************************************************************)
Sc(s) == [t |-> "scalar", v |-> s]
Null == Sc("null")
Map(f) == [t |-> "map", v |-> f]
Lst(s) == [t |-> "seq", v |-> s]
\* The outcome of a call that raised (TypeError, KeyError, AttributeError).
Err == [t |-> "error", v |-> "raised"]

IsContainer(x) == x.t \in {"map", "seq"}

\* The dict key Python makes of a list index i (0-based) in ref[index] = item
\* when ref is a dict: an int key, distinct from every JSON (string) key.
IdxKey(i) == CASE i = 0 -> "#0" [] i = 1 -> "#1" [] i = 2 -> "#2"
               [] i = 3 -> "#3" [] i = 4 -> "#4" [] OTHER -> "#n"

(***************************************************************************)
(* _apply_patch(patch, object_model_ref): the document after the in-place  *)
(* merge, or Err when the call raises.                                     *)
(***************************************************************************)
RECURSIVE ApplyPatch(_, _)

\* A list merge that never replaces: a shorter patch is laid over the head
\* of the document's list and the tail stays.
ApplyListToList_KeepTail(p, r) ==
    LET item(i) ==
            IF i > Len(p) THEN r[i]
            ELSE IF i > Len(r) THEN p[i]
            ELSE IF IsContainer(p[i]) THEN ApplyPatch(p[i], r[i])
            ELSE p[i]
        n == IF Len(p) < Len(r) THEN Len(r) ELSE Len(p)
    IN  IF \E i \in 1..n : item(i) = Err
        THEN Err
        ELSE Lst([i \in 1..n |-> item(i)])

\* type(patch) == list, object_model_ref a list.
ApplyListToList(p, r) ==
    IF Len(p) < Len(r)
    THEN Lst(p)                       \* clear() then extend(patch)
    ELSE LET item(i) ==
                 IF i > Len(r) THEN p[i]                       \* append
                 ELSE IF IsContainer(p[i]) THEN ApplyPatch(p[i], r[i])
                 ELSE p[i]                                     \* base case
         IN  IF \E i \in 1..Len(p) : item(i) = Err
             THEN Err
             ELSE Lst([i \in 1..Len(p) |-> item(i)])

\* type(patch) == list, object_model_ref a dict: len() works on a dict, the
\* list methods clear/extend/append and ref[index] on a missing int key do not.
ApplyListToMap(p, r) ==
    LET n == Cardinality(DOMAIN r)
    IN  IF Len(p) < n THEN Err                 \* clear(), then no extend
        ELSE IF n = 0
        THEN IF Len(p) = 0 THEN Map(r) ELSE Err      \* dict has no append
        \* Each ref[index] = item adds a key, so len(ref) stays above index.
        ELSE IF \E i \in 1..Len(p) : IsContainer(p[i]) THEN Err   \* KeyError
        ELSE Map([k \in DOMAIN r \cup {IdxKey(i - 1) : i \in 1..Len(p)} |->
                     IF k \in DOMAIN r THEN r[k]
                     ELSE p[CHOOSE i \in 1..Len(p) : IdxKey(i - 1) = k]])

\* A shallow merge (dict.update) in place of the recursive one.
ApplyMapToMap_Shallow(p, r) ==
    Map([k \in DOMAIN r \cup DOMAIN p |-> IF k \in DOMAIN p THEN p[k] ELSE r[k]])

\* type(patch) == dict, object_model_ref a dict.
ApplyMapToMap(p, r) ==
    LET val(k) ==
            IF k \notin DOMAIN p THEN r[k]
            ELSE IF p[k].t = "map"
                 THEN IF k \notin DOMAIN r THEN p[k]          \* add new entry
                      ELSE ApplyPatch(p[k], r[k])
            ELSE IF p[k].t = "seq"
                 THEN IF k \notin DOMAIN r THEN Err           \* KeyError
                      ELSE ApplyPatch(p[k], r[k])
            ELSE p[k]                                          \* base case
    IN  IF \E k \in DOMAIN p : val(k) = Err
        THEN Err
        ELSE Map([k \in DOMAIN r \cup DOMAIN p |-> val(k)])

ApplyPatch(patch, ref) ==
    IF ref = Err THEN Err
    ELSE IF patch.t = "seq"
    THEN CASE ref.t = "seq" -> ApplyListToList(patch.v, ref.v)
           [] ref.t = "map" -> ApplyListToMap(patch.v, ref.v)
           [] OTHER -> Err                     \* len() of a scalar
    ELSE IF patch.t = "map"
    THEN CASE ref.t = "map" -> ApplyMapToMap(patch.v, ref.v)
              \* "in", ref[key] and ref[key] = v all raise on a list (str
              \* index) or a scalar; an empty patch touches nothing.
           [] OTHER -> IF DOMAIN patch.v = {} THEN ref ELSE Err
    ELSE ref                                   \* neither list nor dict

(***************************************************************************)
(* The documents and patches SpecPatch draws from.                         *)
(***************************************************************************)
MaxLen == 2

Keys == {"a", "b"}

DocScalars == {Sc("0"), Null}
PatchScalars == {Sc("1"), Null}

MapsOver(K, V) == UNION {{Map(f) : f \in [D -> V]} : D \in SUBSET K}
SeqsUpTo(n, V) == UNION {{Lst(s) : s \in [1..m -> V]} : m \in 0..n}

\* Values nested one level: scalars, maps of scalars, short lists of scalars.
Inner(S) == S \cup MapsOver(Keys, S) \cup {Lst(<<>>)} \cup {Lst(<<x>>) : x \in S}
\* Elements of the outer lists.
Elem(S) == S \cup MapsOver({"a"}, S) \cup {Lst(<<>>)} \cup {Lst(<<x>>) : x \in S}
Outer(S) == Inner(S) \cup MapsOver(Keys, Inner(S)) \cup SeqsUpTo(MaxLen, Elem(S))

Docs == Outer(DocScalars)
Patches == Outer(PatchScalars)

\* The controller's variables while another specification runs.
CtlIdle ==
    /\ simulated = FALSE
    /\ safe_z = FALSE
    /\ machine_model = Map(<<>>)
    /\ keep_subscribing = TRUE
    /\ absolute_moves = TRUE
    /\ pcSync = "none"
    /\ syncPatch = Map(<<>>)
    /\ syncTodo = {}
    /\ syncBefore = Map(<<>>)
    /\ iterDone = FALSE
    /\ fw = Null
    /\ fwView = Null
    /\ callerOp = Null
    /\ callerSteps = <<>>
    /\ result = "none"
    /\ sent = <<>>
    /\ response = "none"
    /\ readMidMerge = FALSE
    /\ boardReset = FALSE

\* The socket controller's own variables while another specification runs.
SwIdle ==
    /\ command_socket = "none"
    /\ attempts = 0
    /\ update_counter = 0

\* The clock and wait_until_idle while another specification runs.
TimeIdle ==
    /\ now = 0
    /\ wake_time = -1
    /\ model_update_timestamp = 0
    /\ start_time = 0
    /\ missedDeadline = FALSE
    /\ wpc = "idle"
    /\ start_wait_time = 0
    /\ timeout = 0
    /\ last_model_update = 0
    /\ sleep_until = 0
    /\ checks = 0
    /\ firstCheckAt = -1
    /\ checkedStatus = "none"

\* The well mappers and the protocol executor while another specification
\* runs.
DeckIdle ==
    /\ mpc = "idle"
    /\ plate_config = Null
    /\ row_letter = "A"
    /\ column_index = 1
    /\ well = Null
    /\ labmate_well = Null
    /\ deck_config = Null
    /\ currentTool = "-1"
    /\ axes_homed = FALSE
    /\ protocol = <<>>
    /\ stack = <<>>
    /\ executed = <<>>
    /\ cleaned = <<>>
    /\ issued = <<>>
    /\ ended = "none"

InitPatch ==
    /\ ppc = "pick"
    /\ pdoc \in Docs
    /\ ppatch \in Patches
    /\ pres = Null
    /\ CtlIdle
    /\ SwIdle
    /\ TimeIdle
    /\ DeckIdle

\* self._apply_patch(patch, object_model_ref)
CallApplyPatch ==
    /\ ppc = "pick"
    /\ pres' = ApplyPatch(ppatch, pdoc)
    /\ ppc' = "done"
    /\ UNCHANGED <<pdoc, ppatch, ctlVars, swVars, timeVars, deckVars>>

NextPatch == CallApplyPatch

SpecPatch == InitPatch /\ [][NextPatch]_vars

(***************************************************************************)
(* Claims about _apply_patch (SpecPatch).                                  *)
(***************************************************************************)
Merged == ppc = "done" /\ pres # Err

\* Along every path on which document and patch are both maps or both lists,
\* a key of the document the patch does not name keeps its value in the
\* result; a list the patch replaces by a shorter one is exempt.
RECURSIVE Preserved(_, _, _)
Preserved(doc, patch, res) ==
    IF doc.t = "map" /\ patch.t = "map"
    THEN /\ res.t = "map"
         /\ \A k \in DOMAIN doc.v :
               /\ k \in DOMAIN res.v
               /\ IF k \in DOMAIN patch.v
                  THEN Preserved(doc.v[k], patch.v[k], res.v[k])
                  ELSE res.v[k] = doc.v[k]
    ELSE IF doc.t = "seq" /\ patch.t = "seq"
    THEN \/ Len(patch.v) < Len(doc.v)
         \/ /\ res.t = "seq"
            /\ Len(res.v) >= Len(doc.v)
            /\ \A i \in 1..Len(doc.v) : Preserved(doc.v[i], patch.v[i], res.v[i])
    ELSE IF doc.t = "map" /\ patch.t = "seq"
    THEN res.t = "map" /\ \A k \in DOMAIN doc.v :
                             k \in DOMAIN res.v /\ res.v[k] = doc.v[k]
    ELSE TRUE

\* C2: after a merge that completes, every key of the document that the patch
\* does not name, at every nesting depth, still holds its prior value, except
\* inside a list that the patch replaces with a shorter one.
C2_PatchPreservesUntouched == Merged => Preserved(pdoc, ppatch, pres)

\* C2's case: a nested map in which the patch changes one key and leaves
\* another key of the document unnamed.
C2_Witness ==
    /\ Merged
    /\ pdoc.t = "map" /\ ppatch.t = "map"
    /\ \E k \in DOMAIN pdoc.v \cap DOMAIN ppatch.v :
          /\ pdoc.v[k].t = "map" /\ ppatch.v[k].t = "map"
          /\ \E i \in DOMAIN pdoc.v[k].v \cap DOMAIN ppatch.v[k].v :
                pres.v[k].v[i] # pdoc.v[k].v[i]
          /\ \E j \in DOMAIN pdoc.v[k].v : j \notin DOMAIN ppatch.v[k].v

\* The patch holds no list shorter than the list of the document it meets.
RECURSIVE NoShorterSeq(_, _)
NoShorterSeq(patch, doc) ==
    IF patch.t = "seq" /\ doc.t = "seq"
    THEN /\ Len(patch.v) >= Len(doc.v)
         /\ \A i \in 1..Len(doc.v) : NoShorterSeq(patch.v[i], doc.v[i])
    ELSE IF patch.t = "map" /\ doc.t = "map"
    THEN \A k \in DOMAIN patch.v \cap DOMAIN doc.v :
            NoShorterSeq(patch.v[k], doc.v[k])
    ELSE TRUE

C15_MissingKeysInserted ==
    (/\ ppc = "done"
     /\ pdoc.t = "map" /\ ppatch.t = "map"
     /\ DOMAIN ppatch.v \cap DOMAIN pdoc.v = {})
        => /\ pres # Err
           /\ \A k \in DOMAIN ppatch.v : pres.v[k] = ppatch.v[k]

\* C16: a map patch over keys under which the document holds scalars
\* completes, and every such key holds the patch's value afterwards, be it a
\* map, a list or a scalar.
C16_ScalarOverwritten ==
    (/\ ppc = "done"
     /\ pdoc.t = "map" /\ ppatch.t = "map"
     /\ DOMAIN ppatch.v \subseteq DOMAIN pdoc.v
     /\ \A k \in DOMAIN ppatch.v : pdoc.v[k].t = "scalar")
        => /\ pres # Err
           /\ \A k \in DOMAIN ppatch.v : pres.v[k] = ppatch.v[k]

\* Wherever a list of the patch meets a longer list of the document, the
\* result holds the patch's list and nothing else.
RECURSIVE ShrinkReplaces(_, _, _)
ShrinkReplaces(doc, patch, res) ==
    IF doc.t = "seq" /\ patch.t = "seq"
    THEN IF Len(patch.v) < Len(doc.v)
         THEN res = patch
         ELSE /\ res.t = "seq"
              /\ \A i \in 1..Len(doc.v) :
                    ShrinkReplaces(doc.v[i], patch.v[i], res.v[i])
    ELSE IF doc.t = "map" /\ patch.t = "map"
    THEN /\ res.t = "map"
         /\ \A k \in DOMAIN doc.v \cap DOMAIN patch.v :
               ShrinkReplaces(doc.v[k], patch.v[k], res.v[k])
    ELSE TRUE

\* C17: after a merge that completes, every list of the document that met a
\* shorter list of the patch is exactly the patch's list: no element of the
\* old list survives beyond the patch's length.
C17_ShrinkReplacesWholesale == Merged => ShrinkReplaces(pdoc, ppatch, pres)

\* C17's case: a list of two elements meets a patch list of one; the result
\* is that one element, which differs from the document's first.
C17_Witness ==
    /\ Merged
    /\ pdoc.t = "seq" /\ Len(pdoc.v) = 2
    /\ ppatch.t = "seq" /\ Len(ppatch.v) = 1
    /\ pres = ppatch
    /\ pres.v[1] # pdoc.v[1]

(***************************************************************************)
(* Spec: the station's controller (sonication_station package).            *)
(*                                                                         *)
(* The firmware side: its state, the full object model it serves on        *)
(* subscription and the patch it answers each acknowledgement with.        *)
(***************************************************************************)
Axes == <<"X", "Y", "Z", "U">>
AxisIdx == DOMAIN Axes
NoAxis == [i \in AxisIdx |-> FALSE]
AllAxes == [i \in AxisIdx |-> TRUE]

Bool(b) == IF b THEN Sc("true") ELSE Sc("false")

\* The object model of firmware state f: move.axes[*].{homed, machinePosition},
\* state.{status, currentTool}.
FwDoc(f) ==
    Map([move |-> Map([axes |-> Lst([i \in AxisIdx |->
                          Map([homed |-> Bool(f.homed[i]),
                               machinePosition |-> Sc("0.0")])])]),
         state |-> Map([status |-> Sc(f.status), currentTool |-> Sc(f.tool)])])

\* The patch that takes a subscriber from state old to state new: only the
\* fields that changed, lists at full length with {} for unchanged items.
FwPatch(old, new) ==
    LET axesP == Lst([i \in AxisIdx |->
                        IF old.homed[i] = new.homed[i] THEN Map(<<>>)
                        ELSE Map([homed |-> Bool(new.homed[i])])])
        stateKeys == (IF old.status # new.status THEN {"status"} ELSE {})
                     \cup (IF old.tool # new.tool THEN {"currentTool"} ELSE {})
        stateP == Map([k \in stateKeys |->
                         IF k = "status" THEN Sc(new.status) ELSE Sc(new.tool)])
        top == (IF old.homed # new.homed THEN {"move"} ELSE {})
               \cup (IF stateKeys # {} THEN {"state"} ELSE {})
    IN  Map([k \in top |-> IF k = "move" THEN Map([axes |-> axesP]) ELSE stateP])

\* The firmware's state after it has run command cmd. Homing is a motion too:
\* the axes come up homed while the machine still reports busy.  G90 and G91
\* set the positioning mode and a board reset returns it to absolute; the
\* mode is a field of the firmware's state in the specification that reads
\* it (SpecHome) and is left out of the others.
FwOn(cmd, f) ==
    LET mode(g, b) == IF "absolute" \in DOMAIN g THEN [g EXCEPT !.absolute = b]
                      ELSE g
    IN  CASE cmd \in {"G0 XY", "G0 Z"} ->
                 IF f.homed = AllAxes THEN [f EXCEPT !.status = "busy"] ELSE f
          [] cmd = "M98 homeall" -> [f EXCEPT !.homed = AllAxes, !.status = "busy"]
          [] cmd \in {"G28 Y", "G28 X", "G28 U"} ->
                 LET i == CHOOSE j \in AxisIdx : cmd = <<"G28 X", "G28 Y", "-", "G28 U">>[j]
                 IN  [f EXCEPT !.homed[i] = TRUE, !.status = "busy"]
          [] cmd = "G90" -> mode(f, TRUE)
          [] cmd = "G91" -> mode(f, FALSE)
          [] cmd = "M999" ->
                 mode([f EXCEPT !.homed = NoAxis, !.status = "idle", !.tool = "-1"],
                      TRUE)
          [] cmd = "T0" -> [f EXCEPT !.tool = "0"]
          [] cmd = "T-1" -> [f EXCEPT !.tool = "-1"]
          [] OTHER -> f

(***************************************************************************)
(* The controller's helpers.                                               *)
(***************************************************************************)
\* dict.update(patch): every top-level key of the patch replaces the
\* document's value under that key.
DictUpdate(m, p) ==
    Map([k \in DOMAIN m.v \cup DOMAIN p.v |->
            IF k \in DOMAIN p.v THEN p.v[k] ELSE m.v[k]])

\* The test of machine_is_homed on mirror m: "ok", or the exception raised.
HomingCheck(m) ==
    IF "move" \notin DOMAIN m.v THEN "KeyError"
    ELSE IF m.v["move"].t # "map" \/ "axes" \notin DOMAIN m.v["move"].v
    THEN "KeyError"
    ELSE LET axes == m.v["move"].v["axes"].v
         IN  IF \E i \in DOMAIN axes : "homed" \notin DOMAIN axes[i].v
             THEN "KeyError"
             ELSE IF \A i \in DOMAIN axes : axes[i].v["homed"] = Sc("true")
             THEN "ok"
             ELSE "MachineStateError"

\* The property active_tool_index on mirror m: the tool index, or the
\* exception raised.
ActiveToolIndex(m) ==
    IF "state" \notin DOMAIN m.v THEN "KeyError"
    ELSE IF "currentTool" \notin DOMAIN m.v["state"].v THEN "KeyError"
    ELSE m.v["state"].v["currentTool"].v

\* The steps of each public operation, in program order.
MoveSteps(mode, axes, wait) ==
    <<mode, "guard", axes>> \o (IF wait THEN <<"m400">> ELSE <<>>)

\* The steps with home_xyu homing X before Y.
StepsOf_XFirst(op) ==
    CASE op.name = "move_xyz_absolute" -> MoveSteps("set_abs", op.axes, op.wait)
      [] op.name = "move_xyz_relative" -> MoveSteps("set_rel", op.axes, op.wait)
      [] op.name = "move_xy_absolute" ->
             (IF safe_z THEN MoveSteps("set_abs", "g0z", FALSE) ELSE <<>>)
             \o MoveSteps("set_abs", "g0xy", op.wait)
      [] op.name = "home_all" -> <<"homeall", "set_abs_force">>
      [] op.name = "home_xyu" -> <<"G28 X", "G28 Y", "G28 U", "set_abs_force">>
      [] op.name = "pickup_tool" -> <<"T0">>
      [] op.name = "park_tool" -> <<"T-1">>
      [] op.name = "reset" -> <<"stop", "join", "rearm", "m999", "disconnect">>
      [] op.name = "disconnect" -> <<"disconnect">>

StepsOf(op) ==
    CASE op.name = "move_xyz_absolute" -> MoveSteps("set_abs", op.axes, op.wait)
      [] op.name = "move_xyz_relative" -> MoveSteps("set_rel", op.axes, op.wait)
      [] op.name = "move_xy_absolute" ->
             (IF safe_z THEN MoveSteps("set_abs", "g0z", FALSE) ELSE <<>>)
             \o MoveSteps("set_abs", "g0xy", op.wait)
      [] op.name = "home_all" -> <<"homeall", "set_abs_force">>
      [] op.name = "home_xyu" -> <<"G28 Y", "G28 X", "G28 U", "set_abs_force">>
      [] op.name = "pickup_tool" -> <<"T0">>
      [] op.name = "park_tool" -> <<"T-1">>
      [] op.name = "reset" -> <<"stop", "join", "rearm", "m999", "disconnect">>
      [] op.name = "disconnect" -> <<"disconnect">>

Ops ==
    [name : {"move_xyz_absolute", "move_xyz_relative"},
     axes : {"g0xy", "g0z"}, wait : BOOLEAN]
    \cup [name : {"move_xy_absolute"}, axes : {"g0xy"}, wait : BOOLEAN]
    \cup [name : {"home_all", "reset", "disconnect", "pickup_tool", "park_tool"},
          axes : {"-"}, wait : {FALSE}]

MoveOps == {"move_xyz_absolute", "move_xyz_relative", "move_xy_absolute"}

InitCtl ==
    /\ simulated \in BOOLEAN
    /\ safe_z \in BOOLEAN
    /\ machine_model = Map(<<>>)
    /\ keep_subscribing = TRUE
    /\ absolute_moves = TRUE
    /\ pcSync = IF simulated THEN "none" ELSE "start"
    /\ syncPatch = Map(<<>>)
    /\ syncTodo = {}
    /\ syncBefore = Map(<<>>)
    /\ iterDone = FALSE
    /\ fw \in [homed : {NoAxis, AllAxes}, status : {"idle"}, tool : {"-1"}]
    /\ fwView = fw
    /\ callerOp = [name |-> "none", axes |-> "-", wait |-> FALSE]
    /\ callerSteps = <<>>
    /\ result = "none"
    /\ sent = <<>>
    /\ response = "none"
    /\ readMidMerge = FALSE
    /\ boardReset = FALSE

PatchIdle ==
    /\ ppc = "idle"
    /\ pdoc = Null
    /\ ppatch = Null
    /\ pres = Null

Init == PatchIdle /\ InitCtl /\ SwIdle /\ TimeIdle /\ DeckIdle

(***************************************************************************)
(* The synchronizer thread.                                                *)
(***************************************************************************)
\* Lines 76-83: subscribe and store the first, full object model.
SyncFirstUpdate ==
    /\ pcSync = "start"
    /\ machine_model' = FwDoc(fw)
    /\ fwView' = fw
    /\ pcSync' = "loop"
    /\ iterDone' = FALSE
    /\ UNCHANGED <<simulated, safe_z, keep_subscribing, absolute_moves,
                   syncPatch, syncTodo, syncBefore, fw, callerVars, patchVars, deckVars,
                   swVars, timeVars>>

\* Line 85 and 90: the stop flag is read once per iteration; send "OK".
SyncAcknowledge ==
    /\ pcSync = "loop"
    /\ keep_subscribing
    /\ pcSync' = "recv"
    /\ UNCHANGED <<objVars, syncPatch, syncTodo, syncBefore, iterDone,
                   fwVars, callerVars, patchVars, deckVars,
                   swVars, timeVars>>

\* The loop without the test of line 85: the thread acknowledges again with
\* the flag down.
SyncExit_KeepsLooping ==
    /\ pcSync = "loop"
    /\ ~keep_subscribing
    /\ pcSync' = "recv"
    /\ UNCHANGED <<objVars, syncPatch, syncTodo, syncBefore, iterDone,
                   fwVars, callerVars, patchVars, deckVars,
                   swVars, timeVars>>

\* Line 85 and 114: the flag is down, close the feed and end the thread.
SyncExit ==
    /\ pcSync = "loop"
    /\ ~keep_subscribing
    /\ pcSync' = "done"
    /\ UNCHANGED <<objVars, syncPatch, syncTodo, syncBefore, iterDone,
                   fwVars, callerVars, patchVars, deckVars,
                   swVars, timeVars>>

\* Line 92: the firmware answers with the patch since its last answer.
SyncReceive ==
    /\ pcSync = "recv"
    /\ syncPatch' = FwPatch(fwView, fw)
    /\ fwView' = fw
    /\ syncTodo' = DOMAIN syncPatch'.v
    /\ syncBefore' = machine_model
    /\ iterDone' = FALSE
    /\ pcSync' = IF DOMAIN syncPatch'.v = {} THEN "update" ELSE "apply"
    /\ UNCHANGED <<objVars, fw, callerVars, patchVars, deckVars,
                   swVars, timeVars>>

\* Line 92, the response is not a JSON document (truncated, empty, garbled):
\* json.loads raises JSONDecodeError, nothing catches it and the thread ends.
SyncReceiveMalformed ==
    /\ pcSync = "recv"
    /\ pcSync' = "dead"
    /\ iterDone' = FALSE
    /\ UNCHANGED <<objVars, syncPatch, syncTodo, syncBefore, fwVars, callerVars,
                   patchVars, deckVars, swVars, timeVars>>

\* Line 95, one pass of the loop of line 151: apply_patch merges the next
\* top-level key of the patch into machine_model; no lock is held.
SyncApplyKey ==
    /\ pcSync = "apply"
    /\ \E k \in syncTodo :
          LET merged == ApplyPatch(Map([j \in {k} |-> syncPatch.v[j]]), machine_model)
          IN  IF merged = Err
              THEN /\ pcSync' = "dead"
                   /\ UNCHANGED <<machine_model, syncTodo>>
              ELSE /\ machine_model' = merged
                   /\ syncTodo' = syncTodo \ {k}
                   /\ pcSync' = IF syncTodo' = {} THEN "update" ELSE "apply"
    /\ UNCHANGED <<simulated, safe_z, keep_subscribing, absolute_moves,
                   syncPatch, syncBefore, iterDone, fwVars, callerVars, patchVars, deckVars,
                   swVars, timeVars>>

\* Lines 98-99: with Lock() makes a lock of its own, which nobody else can
\* hold, so it never waits; then machine_model.update(machine_model_patch).
SyncUpdate ==
    /\ pcSync = "update"
    /\ machine_model' = DictUpdate(machine_model, syncPatch)
    /\ iterDone' = TRUE
    /\ pcSync' = "loop"
    /\ UNCHANGED <<simulated, safe_z, keep_subscribing, absolute_moves,
                   syncPatch, syncTodo, syncBefore, fwVars, callerVars, patchVars, deckVars,
                   swVars, timeVars>>

\* A merge is under way: apply_patch has written some of the patch's keys into
\* the model and has others still to write.
MidMerge ==
    pcSync = "apply" /\ syncTodo # {} /\ syncTodo # DOMAIN syncPatch.v

(***************************************************************************)
(* The firmware finishes the motion it was given.                          *)
(***************************************************************************)
FwFinish ==
    /\ fw.status = "busy"
    /\ fw' = [fw EXCEPT !.status = "idle"]
    /\ UNCHANGED <<objVars, syncVars, fwView, callerVars, patchVars, deckVars,
                   swVars, timeVars>>

(***************************************************************************)
(* The caller's thread: one public operation at a time, step by step.      *)
(***************************************************************************)
Step == Head(callerSteps)

\* The operation goes on to its next step, or returns.
Advance ==
    /\ callerSteps' = Tail(callerSteps)
    /\ result' = IF Tail(callerSteps) = <<>> THEN "ok" ELSE "running"

\* The operation ends by raising e.
Raise(e) ==
    /\ callerSteps' = <<>>
    /\ result' = e

\* What the firmware answers a command with: text that holds the marker
\* "Error" when it has refused the command, other text when it has run it.
Replies == {"ok", "Error"}

\* gcode(cmd) without the early return of lines 171-172: the command is posted
\* whether or not the controller is simulated.
Gcode_WritesWhenSimulated(cmd) ==
    /\ sent' = Append(sent, cmd)
    /\ \E r \in Replies :
          /\ response' = r
          /\ fw' = IF r = "ok" THEN FwOn(cmd, fw) ELSE fw

\* gcode(cmd), lines 167-177: nothing is written in simulated mode; else the
\* command is posted, the firmware runs or refuses it, and its answer is
\* returned as it is, whatever it holds.
Gcode(cmd) ==
    IF simulated
    THEN UNCHANGED <<sent, response, fw>>
    ELSE /\ sent' = Append(sent, cmd)
         /\ \E r \in Replies :
               /\ response' = r
               /\ fw' = IF r = "ok" THEN FwOn(cmd, fw) ELSE fw

\* The caller invokes one of the operations ops on an idle controller.
Call(ops) ==
    /\ callerSteps = <<>>
    /\ \E op \in ops :
          /\ callerOp' = op
          /\ callerSteps' = StepsOf(op)
    /\ result' = "running"
    /\ sent' = <<>>
    /\ response' = "none"
    /\ readMidMerge' = FALSE
    /\ UNCHANGED <<objVars, syncVars, fwVars, boardReset, patchVars, deckVars,
                   swVars, timeVars>>

CallerCall == Call(Ops)

\* _set_absolute_moves without the early return of lines 250-251.
SetAbsoluteMoves_Always ==
    /\ callerSteps # <<>> /\ Step \in {"set_abs", "set_abs_force"}
    /\ Gcode("G90") /\ absolute_moves' = TRUE
    /\ Advance
    /\ UNCHANGED <<simulated, safe_z, machine_model, keep_subscribing,
                   syncVars, fwView, callerOp, readMidMerge, boardReset, patchVars, deckVars,
                   swVars, timeVars>>

\* _set_absolute_moves(force), lines 249-253.
SetAbsoluteMoves ==
    /\ callerSteps # <<>> /\ Step \in {"set_abs", "set_abs_force"}
    /\ IF absolute_moves /\ Step = "set_abs"
       THEN UNCHANGED <<sent, response, fw, absolute_moves>>
       ELSE Gcode("G90") /\ absolute_moves' = TRUE
    /\ Advance
    /\ UNCHANGED <<simulated, safe_z, machine_model, keep_subscribing,
                   syncVars, fwView, callerOp, readMidMerge, boardReset, patchVars, deckVars,
                   swVars, timeVars>>

\* _set_relative_moves(), lines 256-260.
SetRelativeMoves ==
    /\ callerSteps # <<>> /\ Step = "set_rel"
    /\ IF ~absolute_moves
       THEN UNCHANGED <<sent, response, fw, absolute_moves>>
       ELSE Gcode("G91") /\ absolute_moves' = FALSE
    /\ Advance
    /\ UNCHANGED <<simulated, safe_z, machine_model, keep_subscribing,
                   syncVars, fwView, callerOp, readMidMerge, boardReset, patchVars, deckVars,
                   swVars, timeVars>>

\* machine_is_homed, lines 21-24, wrapped around _move_xyz: reads the
\* mirror with no lock.
HomingGuard ==
    /\ callerSteps # <<>> /\ Step = "guard"
    /\ readMidMerge' = (readMidMerge \/ MidMerge)
    /\ IF HomingCheck(machine_model) = "ok"
       THEN Advance
       ELSE Raise(HomingCheck(machine_model))
    /\ UNCHANGED <<objVars, syncVars, fwVars, callerOp, sent, response, boardReset, patchVars, deckVars,
                   swVars, timeVars>>

\* _move_xyz, lines 242-245: the motion command.
SendMove ==
    /\ callerSteps # <<>> /\ Step \in {"g0xy", "g0z"}
    /\ Gcode(IF Step = "g0z" THEN "G0 Z" ELSE "G0 XY")
    /\ Advance
    /\ UNCHANGED <<objVars, syncVars, fwView, callerOp, readMidMerge,
                   boardReset, patchVars, deckVars,
                   swVars, timeVars>>

\* _move_xyz, lines 246-247: M400 is answered once the motion has finished.
SendWait ==
    /\ callerSteps # <<>> /\ Step = "m400"
    /\ simulated \/ fw.status = "idle"
    /\ Gcode("M400")
    /\ Advance
    /\ UNCHANGED <<objVars, syncVars, fwView, callerOp, readMidMerge,
                   boardReset, patchVars, deckVars,
                   swVars, timeVars>>

\* home_all, line 202, and home_xyu, lines 211-213: one homing command.
SendHomeAll ==
    /\ callerSteps # <<>> /\ Step \in {"homeall", "G28 Y", "G28 X", "G28 U"}
    /\ Gcode(IF Step = "homeall" THEN "M98 homeall" ELSE Step)
    /\ boardReset' = FALSE
    /\ Advance
    /\ UNCHANGED <<objVars, syncVars, fwView, callerOp, readMidMerge, patchVars, deckVars,
                   swVars, timeVars>>

\* pickup_tool(0), line 307, and park_tool, line 313: the tool-change command
\* and nothing else.
SendToolChange ==
    /\ callerSteps # <<>> /\ Step \in {"T0", "T-1"}
    /\ Gcode(Step)
    /\ Advance
    /\ UNCHANGED <<objVars, syncVars, fwView, callerOp, readMidMerge,
                   boardReset, patchVars, deckVars, swVars, timeVars>>

\* reset, line 184.
ResetStop ==
    /\ callerSteps # <<>> /\ Step = "stop"
    /\ keep_subscribing' = FALSE
    /\ Advance
    /\ UNCHANGED <<simulated, safe_z, machine_model, absolute_moves, syncVars,
                   fwVars, callerOp, sent, response, readMidMerge, boardReset, patchVars, deckVars,
                   swVars, timeVars>>

\* reset, line 185: join() returns once the thread has ended; without a
\* thread (simulated) state_update_thread is None.
ResetJoin ==
    /\ callerSteps # <<>> /\ Step = "join"
    /\ \/ pcSync = "none" /\ Raise("AttributeError")
       \/ pcSync \in {"done", "dead"} /\ Advance
    /\ UNCHANGED <<objVars, syncVars, fwVars, callerOp, sent, response, readMidMerge,
                   boardReset, patchVars, deckVars,
                   swVars, timeVars>>

\* reset, line 186.
ResetRearm ==
    /\ callerSteps # <<>> /\ Step = "rearm"
    /\ keep_subscribing' = TRUE
    /\ Advance
    /\ UNCHANGED <<simulated, safe_z, machine_model, absolute_moves, syncVars,
                   fwVars, callerOp, sent, response, readMidMerge, boardReset, patchVars, deckVars,
                   swVars, timeVars>>

\* reset, line 187.
ResetBoard ==
    /\ callerSteps # <<>> /\ Step = "m999"
    /\ Gcode("M999")
    /\ Advance
    /\ UNCHANGED <<objVars, syncVars, fwView, callerOp, readMidMerge,
                   boardReset, patchVars, deckVars,
                   swVars, timeVars>>

\* disconnect, lines 435-438: command_ws is None from the constructor on and
\* is never assigned, so close() raises unless the controller is simulated.
\* reset's lines 189-197 follow this call and are never reached.
Disconnect ==
    /\ callerSteps # <<>> /\ Step = "disconnect"
    /\ IF simulated THEN Advance ELSE Raise("AttributeError")
    /\ boardReset' = (boardReset \/ (callerOp.name = "reset" /\ response = "ok"))
    /\ UNCHANGED <<objVars, syncVars, fwVars, callerOp, sent, response, readMidMerge, patchVars, deckVars,
                   swVars, timeVars>>

Caller ==
    \/ CallerCall
    \/ SetAbsoluteMoves
    \/ SetRelativeMoves
    \/ HomingGuard
    \/ SendMove
    \/ SendWait
    \/ SendHomeAll
    \/ SendToolChange
    \/ ResetStop
    \/ ResetJoin
    \/ ResetRearm
    \/ ResetBoard
    \/ Disconnect

Synchronizer ==
    \/ SyncFirstUpdate
    \/ SyncAcknowledge
    \/ SyncExit
    \/ SyncReceive
    \/ SyncReceiveMalformed
    \/ SyncApplyKey
    \/ SyncUpdate

Next == Caller \/ Synchronizer \/ FwFinish

Spec == Init /\ [][Next]_vars

(***************************************************************************)
(* Claims about the station's controller (Spec).                           *)
(***************************************************************************)
Finished == callerSteps = <<>> /\ result \notin {"none", "running"}

\* C1: a move primitive that fails with the not-homed error has issued no
\* transport write: no motion command and no G90/G91 went out before it failed.
C1_HomingGuardNoWrites ==
    (callerOp.name \in MoveOps /\ result = "MachineStateError") => sent = <<>>

\* C3: after a synchronizer iteration, machine_model is the recursive merge of
\* the iteration's patch into the model the iteration started from.
C3_IterationIsMerge ==
    iterDone => machine_model = ApplyPatch(syncPatch, syncBefore)

\* C4: no read of machine_model on the caller's thread happens while the
\* synchronizer has applied a patch only in part.
C4_NoReadMidMerge == ~readMidMerge

\* C9: a move primitive that ends after reset() and before a new home command
\* has failed with the not-homed error.
C9_ResetClearsHoming ==
    (boardReset /\ callerOp.name \in MoveOps /\ Finished)
        => result = "MachineStateError"

\* C18: the cached mode starts absolute; a move sends G90 (resp. G91) exactly
\* when the mode it asks for differs from the cached mode, and the cache then
\* holds the mode asked for; the motion command goes out only with the cached
\* mode equal to the mode of the move, so any mode command precedes it.
C18_ModeSwitchOnTransition ==
    /\ absolute_moves = TRUE
    /\ [][(~simulated /\ callerSteps # <<>> /\ callerSteps' # callerSteps) =>
             /\ Step \in {"set_abs", "set_rel"} =>
                   /\ (sent' # sent) <=> (absolute_moves # (Step = "set_abs"))
                   /\ sent' # sent =>
                         sent' = Append(sent, IF Step = "set_abs" THEN "G90"
                                              ELSE "G91")
                   /\ absolute_moves' = (Step = "set_abs")
             /\ Step \in {"g0xy", "g0z"} =>
                   /\ absolute_moves = (callerOp.name # "move_xyz_relative")
                   /\ sent' = Append(sent, IF Step = "g0z" THEN "G0 Z" ELSE "G0 XY")
                   /\ absolute_moves' = absolute_moves]_vars

\* C18's case: an absolute move that followed a relative one has sent G90 and
\* then its motion command.
C18_Witness ==
    /\ ~simulated
    /\ callerOp.name = "move_xyz_absolute" /\ result = "ok"
    /\ sent = <<"G90", "G0 Z">>
    /\ absolute_moves

\* C19: with the first object model stored, once pickup_tool(0) has returned
\* the controller's active tool index is 0, and once park_tool() has returned
\* it is -1, whatever the synchronizer has delivered since.
C19_ToolReadAfterWrite ==
    (/\ ~simulated /\ machine_model # Map(<<>>)
     /\ Finished /\ result = "ok" /\ response = "ok") =>
        /\ callerOp.name = "pickup_tool" => ActiveToolIndex(machine_model) = "0"
        /\ callerOp.name = "park_tool" => ActiveToolIndex(machine_model) = "-1"

\* C20: an operation one of whose commands the firmware has answered with a
\* reply that holds "Error" does not go on and does not return normally: the
\* gcode() call that got the reply has failed.
C20_ErrorReplyFails == response = "Error" => result \notin {"running", "ok"}

\* C11: a malformed or truncated state-feed response never terminates the
\* synchronizer: from its blocking receive the thread never goes to its end
\* by an exception.
C11_MalformedNeverTerminates == [][pcSync = "recv" => pcSync' # "dead"]_vars

\* C21: disconnect() raises no error, whether it is the first call or a
\* repeated one, and whether or not a channel is open: a finished disconnect
\* has returned normally.
C21_DisconnectRaisesNothing ==
    (callerOp.name = "disconnect" /\ Finished) => result = "ok"

\* C22: a simulated controller performs no I/O: no synchronizer thread is
\* ever started, no operation writes a command to the transport or gets a
\* reply from it (gcode, and disconnect with it, return with nothing sent),
\* the firmware sees nothing and the mirror is never filled.
C22_SimulatedNoIO ==
    simulated =>
        /\ pcSync = "none"
        /\ sent = <<>>
        /\ response = "none"
        /\ machine_model = Map(<<>>)
        /\ fw.status = "idle" /\ fw.tool = "-1"

\* A simulated controller has run home_all, whose two gcode() calls have
\* both returned.
C22_Witness ==
    /\ simulated
    /\ callerOp.name = "home_all"
    /\ Finished /\ result = "ok"

\* C23: on a simulated controller every public operation runs to completion:
\* an operation that has ended has returned normally.
C23_SimulatedOperable == (simulated /\ Finished) => result = "ok"

\* C35: once disconnect() has ended, the synchronizer sends no further
\* acknowledgement on the state feed and applies no further update to the
\* machine model: its thread takes no step and the mirror stays as it is.
C35_DisconnectStopsSynchronizer ==
    [][(callerOp.name = "disconnect" /\ Finished) =>
          (pcSync' = pcSync /\ machine_model' = machine_model)]_vars

\* The cached mode flag as it was when the operation in progress was called.
\* Lines 249-260 assign the flag only next to the mode command they post, and
\* an unforced call posts it only when the flag differs from the mode asked
\* for: the flag has changed during a move exactly when the move has posted
\* G90 or G91.
ModeBeforeCall ==
    IF \E i \in DOMAIN sent : sent[i] \in {"G90", "G91"}
    THEN ~absolute_moves
    ELSE absolute_moves

\* C36: a move primitive that the homing guard has rejected leaves the cached
\* mode flag with the value it had before the call.
C36_RejectedMoveKeepsMode ==
    (callerOp.name \in MoveOps /\ result = "MachineStateError")
        => absolute_moves = ModeBeforeCall

\* C40: on a connected controller the homing guard of a caller's operation
\* never reads the machine model before the synchronizer has stored the
\* first full snapshot.
C40_NoReadBeforeFirstSnapshot ==
    [][(~simulated /\ callerSteps # <<>> /\ Step = "guard"
        /\ callerSteps' # callerSteps) => pcSync # "start"]_vars

(***************************************************************************)
(* SpecHome: the station's controller once more, connected to a firmware   *)
(* whose positioning mode is part of its state, with the operations that   *)
(* home, move and reset.  The firmware answers every acknowledgement with  *)
(* a patch, and a thread that can take a step is scheduled in the end: the *)
(* synchronizer, the firmware, and the caller inside an operation.  Nothing*)
(* makes the caller begin an operation.                                    *)
(***************************************************************************)
InitHome ==
    /\ simulated = FALSE
    /\ safe_z = FALSE
    /\ machine_model = Map(<<>>)
    /\ keep_subscribing = TRUE
    /\ absolute_moves = TRUE
    /\ pcSync = "start"
    /\ syncPatch = Map(<<>>)
    /\ syncTodo = {}
    /\ syncBefore = Map(<<>>)
    /\ iterDone = FALSE
    /\ fw = [homed |-> AllAxes, status |-> "idle", tool |-> "-1",
             absolute |-> TRUE]
    /\ fwView = fw
    /\ callerOp = [name |-> "none", axes |-> "-", wait |-> FALSE]
    /\ callerSteps = <<>>
    /\ result = "none"
    /\ sent = <<>>
    /\ response = "none"
    /\ readMidMerge = FALSE
    /\ boardReset = FALSE
    /\ PatchIdle /\ SwIdle /\ TimeIdle /\ DeckIdle

HomeCaller ==
    \/ SetAbsoluteMoves
    \/ SetRelativeMoves
    \/ HomingGuard
    \/ SendMove
    \/ SendHomeAll
    \/ ResetStop
    \/ ResetJoin
    \/ ResetRearm
    \/ ResetBoard
    \/ Disconnect

HomeSynchronizer ==
    \/ SyncFirstUpdate
    \/ SyncAcknowledge
    \/ SyncExit
    \/ SyncReceive
    \/ SyncApplyKey
    \/ SyncUpdate

NextHome ==
    \/ Call([name : {"move_xyz_relative"}, axes : {"g0z"}, wait : {FALSE}]
            \cup [name : {"home_xyu", "reset"}, axes : {"-"}, wait : {FALSE}])
    \/ HomeCaller
    \/ HomeSynchronizer
    \/ FwFinish

SpecHome ==
    /\ InitHome
    /\ [][NextHome]_vars
    /\ WF_vars(HomeCaller)
    /\ WF_vars(HomeSynchronizer)
    /\ WF_vars(FwFinish)

(***************************************************************************)
(* Claims about homing, the positioning mode and the stop (SpecHome).      *)
(***************************************************************************)
HomeXYUCommands == <<"G28 Y", "G28 X", "G28 U", "G90">>

\* C31: home_xyu sends the Y homing command first, the X homing command
\* next and the U homing command after both, with no other command between
\* them: whatever it has sent so far is the beginning of Y, X, U and the
\* forced G90.
C31_HomingOrder ==
    callerOp.name = "home_xyu" =>
        /\ Len(sent) <= Len(HomeXYUCommands)
        /\ \A i \in DOMAIN sent : sent[i] = HomeXYUCommands[i]

\* home_xyu has returned with all of its commands sent.
C31_Witness ==
    /\ callerOp.name = "home_xyu" /\ Finished /\ result = "ok"
    /\ sent = HomeXYUCommands

C37_CachedModeMatchesFirmware ==
    [][(absolute_moves = fw.absolute /\ response' # "Error")
          => absolute_moves' = fw'.absolute]_vars

(***************************************************************************)
(* SpecSw: the socket controller (src/software/jubilee_controller.py).     *)
(* It talks to the firmware's control server over a unix socket, takes the *)
(* whole object model on every update ("Full" subscription) and can        *)
(* reconnect after a board reset.                                          *)
(***************************************************************************)
ReconnectAttempts == 10
MaxCount == 2

\* Time is time.perf_counter() in ticks: the poll interval, the longest a
\* blocking receive lasts, and the end of the clock.
Poll == 2
MaxRecv == Poll + 1
MaxNow == 7

SwCommands == {"M999", "M400", "G0", "G0 XY"}

\* The steps of reset(), lines 154-168, in program order.
SwResetSteps_BoardFirst ==
    <<"stop", "M999", "join", "rearm", "disconnect", "reconnect">>

SwResetSteps == <<"stop", "join", "rearm", "M999", "disconnect", "reconnect">>

\* Labmate.move_xy_absolute(x, y, wait=False), src/software/labmate.py lines
\* 81-87: a move with z=None, which names no axis, when safe_z is None, and
\* then the XY move; each move reads the position first
\* (jubilee_controller.py, lines 213-235).
LabmateMoveXYSteps ==
    (IF safe_z THEN <<>> ELSE <<"position", "G0">>) \o <<"position", "G0 XY">>

SwStepsOf(name) ==
    CASE name = "reset" -> SwResetSteps
      [] name = "disconnect" -> <<"disconnect">>
      [] name = "gcode" -> <<"M400">>
      [] name = "move_xy_absolute" -> LabmateMoveXYSteps

SwOp(name) == [name |-> name, axes |-> "-", wait |-> FALSE]

\* __init__, lines 26-40, has returned: connect() has opened the command
\* socket and started the worker, or has done nothing (simulated).
InitSw ==
    /\ simulated \in BOOLEAN
    /\ safe_z \in BOOLEAN
    /\ machine_model = Map(<<>>)
    /\ keep_subscribing = TRUE
    /\ absolute_moves = TRUE
    /\ pcSync = IF simulated THEN "none" ELSE "start"
    /\ syncPatch = Map(<<>>)
    /\ syncTodo = {}
    /\ syncBefore = Map(<<>>)
    /\ iterDone = FALSE
    /\ fw \in [homed : {NoAxis, AllAxes}, status : {"idle"}, tool : {"-1"}]
    /\ fwView = fw
    /\ callerOp = SwOp("none")
    /\ callerSteps = <<>>
    /\ result = "none"
    /\ sent = <<>>
    /\ response = "none"
    /\ readMidMerge = FALSE
    /\ boardReset = FALSE
    /\ command_socket = IF simulated THEN "none" ELSE "open"
    /\ attempts = 0
    /\ update_counter = 0
    /\ PatchIdle
    /\ DeckIdle
    /\ TimeIdle

\* Worker, lines 78-98: subscribe and store the first object model; the
\* first iteration is due at once.
SwWorkerSubscribe ==
    /\ pcSync = "start"
    /\ machine_model' = DictUpdate(machine_model, FwDoc(fw))
    /\ fwView' = fw
    /\ wake_time' = now
    /\ pcSync' = "loop"
    /\ UNCHANGED <<simulated, safe_z, keep_subscribing, absolute_moves,
                   syncPatch, syncTodo, syncBefore, iterDone, fw, callerVars,
                   patchVars, deckVars, swVars, now, model_update_timestamp, start_time,
                   missedDeadline, waitVars>>

\* Worker, lines 100-106: the sleep of the previous iteration, if any, is
\* over; the loop goes on, notes its start time and acknowledges.
SwWorkerAcknowledge ==
    /\ pcSync = "loop"
    /\ keep_subscribing
    /\ now >= wake_time
    /\ start_time' = now
    /\ pcSync' = "recv"
    /\ UNCHANGED <<objVars, syncPatch, syncTodo, syncBefore, iterDone, fwVars,
                   callerVars, patchVars, deckVars, swVars, now, wake_time,
                   model_update_timestamp, missedDeadline, waitVars>>

\* Worker, lines 108-119: the response is stored and counted; one that does
\* not parse is reported and dropped.  Then the worker sleeps for what is
\* left of the poll interval since the iteration began, if anything is.
SwWorkerUpdate ==
    /\ pcSync = "recv"
    /\ \E parses \in BOOLEAN :
          IF parses
          THEN /\ machine_model' = DictUpdate(machine_model, FwDoc(fw))
               /\ update_counter' = IF update_counter < MaxCount
                                    THEN update_counter + 1 ELSE update_counter
               /\ fwView' = fw
          ELSE UNCHANGED <<machine_model, update_counter, fwView>>
    /\ LET elapsed_time_s == now - start_time
       IN  wake_time' = IF elapsed_time_s < Poll
                        THEN now + (Poll - elapsed_time_s)
                        ELSE now
    /\ pcSync' = "loop"
    /\ UNCHANGED <<simulated, safe_z, keep_subscribing, absolute_moves,
                   syncPatch, syncTodo, syncBefore, iterDone, fw, callerVars,
                   patchVars, deckVars, command_socket, attempts, now,
                   model_update_timestamp, start_time, missedDeadline, waitVars>>

\* Worker, lines 100, 120-121: the flag is down, the feed is closed.
SwWorkerExit ==
    /\ pcSync = "loop"
    /\ ~keep_subscribing
    /\ pcSync' = "done"
    /\ UNCHANGED <<objVars, syncPatch, syncTodo, syncBefore, iterDone, fwVars,
                   callerVars, patchVars, deckVars, swVars, timeVars>>

SwWorker ==
    \/ SwWorkerSubscribe
    \/ SwWorkerAcknowledge
    \/ SwWorkerUpdate
    \/ SwWorkerExit

\* A public operation is called; the process has not exited.
SwCall ==
    /\ callerSteps = <<>>
    /\ result # "SystemExit"
    /\ \E name \in {"reset", "disconnect", "gcode", "move_xy_absolute"} :
          /\ callerOp' = SwOp(name)
          /\ callerSteps' = SwStepsOf(name)
    /\ result' = "running"
    /\ sent' = <<>>
    /\ response' = "none"
    /\ attempts' = 0
    /\ UNCHANGED <<objVars, syncVars, fwVars, readMidMerge, boardReset,
                   patchVars, deckVars, command_socket, update_counter, timeVars>>

\* reset, line 155.
SwResetStop ==
    /\ callerSteps # <<>> /\ Step = "stop"
    /\ keep_subscribing' = FALSE
    /\ Advance
    /\ UNCHANGED <<simulated, safe_z, machine_model, absolute_moves, syncVars,
                   fwVars, callerOp, sent, response, readMidMerge, boardReset, patchVars, deckVars,
                   swVars, timeVars>>

\* reset, line 156: join() returns once the worker has ended; a simulated
\* controller has no worker and state_update_thread is None.
SwResetJoin ==
    /\ callerSteps # <<>> /\ Step = "join"
    /\ \/ pcSync = "none" /\ Raise("AttributeError")
       \/ pcSync = "done" /\ Advance
    /\ UNCHANGED <<objVars, syncVars, fwVars, callerOp, sent, response, readMidMerge,
                   boardReset, patchVars, deckVars, swVars, timeVars>>

\* reset, line 157.
SwResetRearm ==
    /\ callerSteps # <<>> /\ Step = "rearm"
    /\ keep_subscribing' = TRUE
    /\ Advance
    /\ UNCHANGED <<simulated, safe_z, machine_model, absolute_moves, syncVars,
                   fwVars, callerOp, sent, response, readMidMerge, boardReset, patchVars, deckVars,
                   swVars, timeVars>>

\* _move_xyz, lines 213-216: get_position() (lines 289-309) reads the mirror,
\* which is empty until the worker has stored the first object model.
SwReadPosition ==
    /\ callerSteps # <<>> /\ Step = "position"
    /\ IF ActiveToolIndex(machine_model) = "KeyError"
       THEN Raise("KeyError")
       ELSE Advance
    /\ UNCHANGED <<objVars, syncVars, fwVars, callerOp, sent, response, readMidMerge,
                   boardReset, patchVars, deckVars, swVars, timeVars>>

\* gcode, lines 131-148 (reset's line 158 sends M999 through it): nothing is
\* written in simulated mode; a socket that is not connected refuses the
\* write; a reply that holds 'Error' ends the process with exit(8), its
\* daemon worker included.
SwGcode ==
    /\ callerSteps # <<>> /\ Step \in SwCommands
    /\ IF simulated
       THEN Advance /\ UNCHANGED <<sent, response, fw, pcSync>>
       ELSE IF command_socket # "open"
       THEN Raise("OSError") /\ UNCHANGED <<sent, response, fw, pcSync>>
       ELSE /\ sent' = Append(sent, Step)
            /\ \E r \in Replies :
                  /\ response' = r
                  /\ fw' = IF r = "ok" THEN FwOn(Step, fw) ELSE fw
                  /\ IF r = "Error"
                     THEN Raise("SystemExit") /\ pcSync' = "dead"
                     ELSE Advance /\ UNCHANGED pcSync
    /\ UNCHANGED <<objVars, syncPatch, syncTodo, syncBefore, iterDone, fwView,
                   callerOp, readMidMerge, boardReset, patchVars, deckVars, swVars,
                   timeVars>>

\* disconnect, lines 124-128: shutdown() and close() of the command socket;
\* shutdown() raises on a socket that is closed or was never connected.
SwDisconnect ==
    /\ callerSteps # <<>> /\ Step = "disconnect"
    /\ IF simulated
       THEN Advance /\ UNCHANGED command_socket
       ELSE IF command_socket = "open"
       THEN Advance /\ command_socket' = "closed"
       ELSE Raise("OSError") /\ UNCHANGED command_socket
    /\ UNCHANGED <<objVars, syncVars, fwVars, callerOp, sent, response, readMidMerge,
                   boardReset, patchVars, deckVars, attempts, update_counter, timeVars>>

\* reset, lines 161-168, one turn of the retry loop: sleep, then connect()
\* (lines 47-71).  connect() makes a new socket and connects it: on success
\* it starts the worker and reset returns; FileNotFoundError (no socket file)
\* is swallowed and the loop goes on, and after the last turn reset prints
\* "Reconnecting failed." and returns; any other error leaves reset at once.
SwReconnect ==
    /\ callerSteps # <<>> /\ Step = "reconnect"
    /\ attempts' = attempts + 1
    /\ \E outcome \in {"connected", "FileNotFoundError", "ConnectionRefusedError"} :
          CASE outcome = "connected" ->
                   /\ command_socket' = "open"
                   /\ pcSync' = "start"
                   /\ Advance
            [] outcome = "FileNotFoundError" ->
                   /\ command_socket' = "unconnected"
                   /\ UNCHANGED pcSync
                   /\ IF attempts + 1 < ReconnectAttempts
                      THEN UNCHANGED <<callerSteps, result>>
                      ELSE Advance
            [] outcome = "ConnectionRefusedError" ->
                   /\ command_socket' = "unconnected"
                   /\ UNCHANGED pcSync
                   /\ Raise("ConnectionRefusedError")
    /\ UNCHANGED <<objVars, syncPatch, syncTodo, syncBefore, iterDone, fwVars,
                   callerOp, sent, response, readMidMerge, boardReset, patchVars, deckVars,
                   update_counter, timeVars>>

SwCaller ==
    \/ SwCall
    \/ SwResetStop
    \/ SwResetJoin
    \/ SwResetRearm
    \/ SwReadPosition
    \/ SwGcode
    \/ SwDisconnect
    \/ SwReconnect

\* Time passes while the worker sleeps, blocks in a receive that has not
\* lasted MaxRecv yet, or is not running.
SwTick ==
    /\ now < MaxNow
    /\ \/ pcSync \in {"none", "done", "dead"}
       \/ pcSync = "loop" /\ now < wake_time
       \/ pcSync = "recv" /\ now - start_time < MaxRecv
    /\ now' = now + 1
    /\ UNCHANGED <<ctlVars, patchVars, deckVars, swVars, wake_time, model_update_timestamp,
                   start_time, missedDeadline, waitVars>>

NextSw == SwCaller \/ SwWorker \/ SwTick

SpecSw == InitSw /\ [][NextSw]_vars

(***************************************************************************)
(* Claims about the reconnecting reset (SpecSw).                           *)
(***************************************************************************)
SwResetEnded == callerOp.name = "reset" /\ Finished

\* C8: a reset() whose every connect() attempt failed has made all its
\* attempts and has then failed: it has not returned normally.
C8_ReconnectBudget ==
    (SwResetEnded /\ attempts = ReconnectAttempts /\ command_socket = "unconnected")
        => result # "ok"

C12_DriftFreeSchedule ==
    [][(pcSync = "recv" /\ pcSync' \in {"loop", "sleep"})
          => wake_time' = wake_time + Poll]_vars

\* C30: with safe_z defined, every XY travel move that move_xy_absolute has
\* sent comes after a Z move to safe_z that the same call has sent, with no
\* other motion command between the two.
MotionCommands == {"G0", "G0 XY", "G0 Z"}
C30_SafeZRetractFirst ==
    (safe_z /\ callerOp.name = "move_xy_absolute") =>
        \A i \in DOMAIN sent :
           sent[i] = "G0 XY" =>
              \E j \in 1..(i - 1) :
                 /\ sent[j] = "G0 Z"
                 /\ \A k \in (j + 1)..(i - 1) : sent[k] \notin MotionCommands

(***************************************************************************)
(* SpecTime: the station's synchronizer on its schedule and the caller in  *)
(* wait_until_idle.  Time is time.perf_counter() in ticks; a step of the   *)
(* program takes no time, a sleep or a blocking receive lets it pass.      *)
(***************************************************************************)
MaxTimeout == 2

Timeouts == 0..MaxTimeout
Statuses == {"idle", "Idle", "busy", "paused"}
Tools == {"-1", "0"}

\* str.lower() on the status texts.
Lower(st) ==
    CASE st = "Idle" -> "idle"
      [] st = "Busy" -> "busy"
      [] OTHER -> st

\* is_busy, lines 316-320.
IsBusy_OnlyBusy(m) == Lower(m.v["state"].v["status"].v) = "busy"

IsBusy(m) == Lower(m.v["state"].v["status"].v) # "idle"

\* is_busy reads machine_model['state']['status']: the key has to be there.
HasStatus(m) == "status" \in DOMAIN m.v["state"].v

\* wait_until_idle, line 413: the test that ends the wait with an error.
TimedOut(elapsed, limit) == elapsed > limit

InitTime ==
    /\ simulated \in BOOLEAN
    /\ safe_z = FALSE
    /\ machine_model = Map(<<>>)
    /\ keep_subscribing = TRUE
    /\ absolute_moves = TRUE
    /\ pcSync = IF simulated THEN "none" ELSE "start"
    /\ syncPatch = Map(<<>>)
    /\ syncTodo = {}
    /\ syncBefore = Map(<<>>)
    /\ iterDone = FALSE
    /\ fw \in [homed : {AllAxes}, status : Statuses, tool : {"-1"}]
    /\ fwView = fw
    /\ callerOp = [name |-> "wait_until_idle", axes |-> "-", wait |-> FALSE]
    /\ callerSteps = <<>>
    /\ result = "none"
    /\ sent = <<>>
    /\ response = "none"
    /\ readMidMerge = FALSE
    /\ boardReset = FALSE
    /\ PatchIdle
    /\ DeckIdle
    /\ SwIdle
    /\ TimeIdle

\* Lines 76-83: subscribe, set the schedule, store the first object model.
TimedSyncFirstUpdate ==
    /\ pcSync = "start"
    /\ wake_time' = now
    /\ machine_model' = FwDoc(fw)
    /\ fwView' = fw
    /\ model_update_timestamp' = model_update_timestamp + 1
    /\ pcSync' = "loop"
    /\ UNCHANGED <<simulated, safe_z, keep_subscribing, absolute_moves,
                   syncPatch, syncTodo, syncBefore, iterDone, fw, callerVars,
                   patchVars, deckVars, swVars, now, start_time, missedDeadline, waitVars>>

\* Lines 85-91: the sleep of the previous iteration, if any, is over; the
\* loop goes on and acknowledges.
TimedSyncAcknowledge ==
    /\ pcSync = "loop"
    /\ keep_subscribing
    /\ now >= wake_time
    /\ start_time' = now
    /\ pcSync' = "recv"
    /\ UNCHANGED <<objVars, syncPatch, syncTodo, syncBefore, iterDone, fwVars,
                   callerVars, patchVars, deckVars, swVars, now, wake_time,
                   model_update_timestamp, missedDeadline, waitVars>>

\* Lines 92-108 and 112: the patch arrives, carrying whatever has changed
\* in the machine's status and current tool by now, and is applied (merge,
\* then dict.update); the update is stamped, and the next wake time is the
\* previous one plus the poll interval.  The clock is compared with it: the
\* thread goes on to sleep, or reports the missed deadline and loops.
TimedSyncUpdate ==
    /\ pcSync = "recv"
    /\ \E st \in Statuses, tl \in Tools :
          fw' = [fw EXCEPT !.status = st, !.tool = tl]
    /\ LET patch == FwPatch(fwView, fw')
       IN  machine_model' = DictUpdate(ApplyPatch(patch, machine_model), patch)
    /\ fwView' = fw'
    /\ model_update_timestamp' = model_update_timestamp + 1
    /\ wake_time' = wake_time + Poll
    /\ IF now <= wake_time'
       THEN pcSync' = "sleep" /\ UNCHANGED missedDeadline
       ELSE pcSync' = "loop" /\ missedDeadline' = TRUE
    /\ UNCHANGED <<simulated, safe_z, keep_subscribing, absolute_moves,
                   syncPatch, syncTodo, syncBefore, iterDone, callerVars,
                   patchVars, deckVars, swVars, now, start_time, waitVars>>

\* Line 110: time.sleep(self.wake_time - time.perf_counter()) reads the clock
\* again, after the comparison of line 108; time.sleep raises ValueError on a
\* negative length, which ends the thread.
TimedSyncSleep ==
    /\ pcSync = "sleep"
    /\ pcSync' = IF wake_time - now < 0 THEN "dead" ELSE "loop"
    /\ UNCHANGED <<objVars, syncPatch, syncTodo, syncBefore, iterDone, fwVars,
                   callerVars, patchVars, deckVars, swVars, timeVars>>

\* The caller leaves wait_until_idle with outcome r.
WaitEnds(r) ==
    /\ wpc' = "idle"
    /\ result' = r

\* wait_until_idle is called, lines 403-404.
WaitUntilIdle ==
    /\ wpc = "idle"
    /\ result = "none"
    /\ \E t \in Timeouts : timeout' = t
    /\ start_wait_time' = now
    /\ wpc' = "enter"
    /\ result' = "running"
    /\ UNCHANGED <<objVars, syncVars, fwVars, callerOp, callerSteps, sent, response,
                   readMidMerge, boardReset, patchVars, deckVars, swVars, clockVars,
                   last_model_update, sleep_until, checks, firstCheckAt,
                   checkedStatus>>

\* _sleep_until_next_update, lines 421-429: note the stamp of the last update
\* and sleep until the scheduled wake time, or one poll interval beyond it if
\* it has passed.  wake_time is None until the synchronizer has subscribed,
\* and time.sleep refuses a negative interval.
SleepUntilNextUpdate ==
    /\ wpc = "enter"
    /\ last_model_update' = model_update_timestamp
    /\ IF wake_time = -1
       THEN WaitEnds("TypeError") /\ UNCHANGED sleep_until
       ELSE LET first == wake_time - now
                sleep_interval == IF first < 0 THEN wake_time + Poll - now
                                  ELSE first
            IN  IF sleep_interval < 0
                THEN WaitEnds("ValueError") /\ UNCHANGED sleep_until
                ELSE /\ sleep_until' = now + sleep_interval
                     /\ wpc' = "asleep"
                     /\ UNCHANGED result
    /\ UNCHANGED <<objVars, syncVars, fwVars, callerOp, callerSteps, sent, response,
                   readMidMerge, boardReset, patchVars, deckVars, swVars, clockVars,
                   start_wait_time, timeout, checks, firstCheckAt,
                   checkedStatus>>

\* _sleep_until_next_update, lines 429-432: the sleep is over and the stamp
\* has changed.
SleepReturns ==
    /\ wpc = "asleep"
    /\ now >= sleep_until
    /\ model_update_timestamp # last_model_update
    /\ wpc' = "check"
    /\ UNCHANGED <<objVars, syncVars, fwVars, callerVars, patchVars, deckVars, swVars,
                   clockVars, start_wait_time, timeout, last_model_update,
                   sleep_until, checks, firstCheckAt, checkedStatus>>

\* wait_until_idle, lines 411-415: return when the model is not busy, fail
\* when the time is up, else sleep again.  is_busy raises KeyError when the
\* model holds no status.
CheckBusy ==
    /\ wpc = "check"
    /\ checks' = checks + 1
    /\ firstCheckAt' = IF checks = 0 THEN now ELSE firstCheckAt
    /\ IF ~HasStatus(machine_model)
       THEN WaitEnds("KeyError") /\ checkedStatus' = "missing"
       ELSE /\ checkedStatus' = machine_model.v["state"].v["status"].v
            /\ IF ~IsBusy(machine_model)
               THEN WaitEnds("ok")
               ELSE IF TimedOut(now - start_wait_time, timeout)
               THEN WaitEnds("RuntimeError")
               ELSE wpc' = "enter" /\ UNCHANGED result
    /\ UNCHANGED <<objVars, syncVars, fwVars, callerOp, callerSteps, sent, response,
                   readMidMerge, boardReset, patchVars, deckVars, swVars, clockVars,
                   start_wait_time, timeout, last_model_update, sleep_until>>

\* Time passes while each thread sleeps, blocks in a receive that has not
\* lasted MaxRecv yet, or is not running; the scheduled wake time may also
\* pass between the comparison of line 108 and the sleep call of line 110.
\* The clock starts when the synchronizer subscribes.
ThreadWaits ==
    \/ pcSync \in {"none", "dead"}
    \/ pcSync = "loop" /\ now < wake_time
    \/ pcSync = "recv" /\ now - start_time < MaxRecv
    \/ pcSync = "sleep" /\ now <= wake_time

CallerWaits ==
    \/ wpc = "idle"
    \/ wpc = "asleep" /\ (now < sleep_until \/ model_update_timestamp = last_model_update)

Tick ==
    /\ now < MaxNow
    /\ ThreadWaits
    /\ CallerWaits
    /\ now' = now + 1
    /\ UNCHANGED <<ctlVars, patchVars, deckVars, swVars, wake_time, model_update_timestamp,
                   start_time, missedDeadline, waitVars>>

NextTime ==
    \/ TimedSyncFirstUpdate
    \/ TimedSyncAcknowledge
    \/ TimedSyncUpdate
    \/ TimedSyncSleep
    \/ WaitUntilIdle
    \/ SleepUntilNextUpdate
    \/ SleepReturns
    \/ CheckBusy
    \/ Tick

SpecTime == InitTime /\ [][NextTime]_vars

(***************************************************************************)
(* Claims about wait_until_idle (SpecTime).                                *)
(***************************************************************************)
\* The synchronizer has kept its schedule: no deadline missed so far and the
\* receive under way is not overdue.
OnSchedule ==
    /\ ~missedDeadline
    /\ pcSync = "recv" => now <= wake_time + Poll

InWait == wpc # "idle"
WaitEnded == wpc = "idle" /\ result \notin {"none", "running"}

\* C5: with the synchronizer subscribed and on schedule, a caller is inside
\* wait_until_idle(timeout) no later than timeout plus one poll interval
\* after the call, and a wait that has not returned normally has ended with
\* the timed-out error.
C5_TimesOutWithinOnePoll ==
    OnSchedule =>
        /\ InWait => now - start_wait_time <= timeout + Poll
        /\ (WaitEnded /\ result \notin {"ok", "TypeError"})
               => result = "RuntimeError"

\* C6: wait_until_idle has returned normally only if the status it read at
\* its last check was idle.
C6_ReturnsOnlyWhenIdle ==
    (WaitEnded /\ result = "ok") => Lower(checkedStatus) = "idle"

\* A wait that saw the machine busy and returned on a later check.
C6_Witness ==
    /\ WaitEnded /\ result = "ok"
    /\ checks >= 2
    /\ checkedStatus = "Idle"

\* C7: the first check of wait_until_idle comes at least one full poll
\* interval after the call.
C7_FirstCheckAfterFullInterval ==
    checks > 0 => firstCheckAt - start_wait_time >= Poll

\* C13: the synchronizer never sleeps a negative duration: when the scheduled
\* wake time has passed by the time its sleep would start, it reports the
\* missed deadline and begins the next iteration.
C13_NeverSleepsNegative ==
    [][(pcSync = "sleep" /\ pcSync' # "sleep" /\ now > wake_time)
          => (pcSync' = "loop" /\ missedDeadline')]_vars

\* C33: with the synchronizer's thread gone (never started, or ended), a
\* caller is inside wait_until_idle(timeout) no later than the timeout plus
\* the two poll intervals its sleeps can take: the wait is bounded.
C33_BoundedWithoutSynchronizer ==
    (pcSync \in {"none", "dead"} /\ InWait)
        => now - start_wait_time <= timeout + 2 * Poll

\* C34: when the first _sleep_until_next_update of a wait returns after
\* exactly one update, the synchronizer sent the acknowledgement that asked
\* for that update no earlier than the call (start_time is when it sent it;
\* the call of the first sleep is the call of wait_until_idle).
C34_FreshAfterCall ==
    (/\ wpc = "check" /\ checks = 0
     /\ pcSync \in {"sleep", "loop", "dead"}
     /\ model_update_timestamp = last_model_update + 1)
        => start_time >= start_wait_time

(***************************************************************************)
(* SpecWell: the well-position mappers, SonicationStation._get_well_position*)
(* and Labmate._get_well_position, with the conversion sonicate_well makes *)
(* from a row letter and a 1-based column.  Lengths are whole millimetres  *)
(* and angles whole degrees; the universe holds the plates for which every *)
(* square root, quotient and angle the code computes is such a number, so  *)
(* that sqrt, acos, asin, cos and sin are the exact functions.             *)
(***************************************************************************)
Side == 110
Points == {0, Side} \X {0, Side}

\* WELL_COUNT_TO_ROWS, lines 53-57: (rows, columns) by well count.
WELL_COUNT_TO_ROWS ==
    [wc \in {96, 48, 6, 24, 12} |->
        CASE wc = 96 -> <<8, 12>>
          [] wc = 48 -> <<6, 8>>
          [] wc = 6 -> <<2, 3>>
          [] wc = 24 -> <<4, 6>>
          [] wc = 12 -> <<3, 4>>]

\* ord(row_letter.upper()) - 65, line 574.
RowIndex(letter) ==
    LET upper == IF letter = "b" THEN "B" ELSE letter
        ord == CASE upper = "@" -> 64 [] upper = "A" -> 65
                 [] upper = "B" -> 66 [] upper = "C" -> 67
    IN  ord - 65

\* column_index -= 1, line 575.
ColIndex(column) == column - 1

\* The result of a mapper: a coordinate (e = "ok") or the exception raised.
At(x, y) == [e |-> "ok", x |-> x, y |-> y]
Fail(e) == [e |-> e, x |-> 0, y |-> 0]

IsSquare(n) == \E r \in 0..Side : r * r = n
Sqrt(n) == CHOOSE r \in 0..Side : r * r = n

\* acos and asin of num/den in degrees, for the ratios -1, 0 and 1;
\* 1000 stands for an angle that is no whole number of degrees.
AcosDeg(num, den) ==
    IF num = den THEN 0 ELSE IF num = 0 THEN 90 ELSE IF num = -den THEN 180
    ELSE 1000
AsinDeg(num, den) ==
    IF num = den THEN 90 ELSE IF num = 0 THEN 0 ELSE IF num = -den THEN -90
    ELSE 1000
Cos(deg) == CASE deg \in {0, 360} -> 1 [] deg \in {90, -90, 270} -> 0
              [] deg \in {180, -180} -> -1
Sin(deg) == CASE deg \in {0, 180, -180, 360} -> 0 [] deg = 90 -> 1
              [] deg \in {-90, 270} -> -1

\* SonicationStation._get_well_position (lines 640-677) on plate entry pl.
\* "irrational" marks a plate outside the universe.
GetWellPosition(pl, row_index, col_index) ==
    IF pl.well_count \notin DOMAIN WELL_COUNT_TO_ROWS THEN Fail("KeyError")
    ELSE
    LET row_count == WELL_COUNT_TO_ROWS[pl.well_count][1]
        col_count == WELL_COUNT_TO_ROWS[pl.well_count][2]
        a == pl.a
        b == pl.b
        c == pl.c
        width2 == (b[1] - a[1]) * (b[1] - a[1]) + (b[2] - a[2]) * (b[2] - a[2])
        height2 == (c[1] - b[1]) * (c[1] - b[1]) + (c[2] - b[2]) * (c[2] - b[2])
    IN
    IF row_index > row_count - 1 \/ col_index > col_count - 1
    THEN Fail("LookupError")
    ELSE IF ~IsSquare(width2) \/ ~IsSquare(height2) THEN Fail("irrational")
    ELSE
    LET plate_width == Sqrt(width2)
        plate_height == Sqrt(height2)
    IN
    IF plate_width % (col_count - 1) # 0 \/ plate_height % (row_count - 1) # 0
    THEN Fail("irrational")
    ELSE IF plate_height = 0 \/ plate_width = 0 THEN Fail("ZeroDivisionError")
    ELSE
    LET x_spacing == plate_width \div (col_count - 1)
        y_spacing == plate_height \div (row_count - 1)
        theta1 == AcosDeg(c[2] - b[2], plate_height)
        theta2 == AcosDeg(b[1] - a[1], plate_width)
    IN
    IF theta1 = 1000 \/ theta2 = 1000 \/ (theta1 + theta2) % 180 # 0
    THEN Fail("irrational")
    ELSE
    LET theta == (theta1 + theta2) \div 2
        x_nominal == col_index * x_spacing
        y_nominal == row_index * y_spacing
    IN At(x_nominal * Cos(theta) - y_nominal * Sin(theta) + a[1],
          x_nominal * Sin(theta) + y_nominal * Cos(theta) + a[2])

\* Labmate._get_well_position (src/software/labmate.py, lines 223-246) on
\* plate entry pl, whose row_count and col_count are fields of the entry.
LabmateGetWellPosition(pl, row_index, col_index) ==
    LET a == pl.a
        b == pl.b
        c == pl.c
        width2 == (b[1] - a[1]) * (b[1] - a[1]) - (b[2] - a[2]) * (b[2] - a[2])
        height2 == (c[1] - b[1]) * (c[1] - b[1]) - (c[2] - b[2]) * (c[2] - b[2])
    IN
    IF width2 < 0 \/ height2 < 0 THEN Fail("ValueError")
    ELSE IF ~IsSquare(width2) \/ ~IsSquare(height2) THEN Fail("irrational")
    ELSE
    LET plate_width == Sqrt(width2)
        plate_height == Sqrt(height2)
    IN
    IF plate_width % pl.col_count # 0 \/ plate_width % pl.row_count # 0
    THEN Fail("irrational")
    ELSE IF plate_height = 0 \/ plate_width = 0 THEN Fail("ZeroDivisionError")
    ELSE
    LET x_spacing == plate_width \div pl.col_count
        y_spacing == plate_width \div pl.row_count
        theta1 == AsinDeg(c[2] - b[2], plate_height)
        theta2 == AcosDeg(b[1] - a[1], plate_width)
    IN
    IF theta1 = 1000 \/ theta2 = 1000 \/ (theta1 + theta2) % 180 # 0
    THEN Fail("irrational")
    ELSE
    LET theta == (theta1 + theta2) \div 2
        x_nominal == a[1] + col_index * x_spacing
        y_nominal == a[2] + row_index * y_spacing
    IN At(x_nominal * Cos(theta) - y_nominal * Cos(theta),
          x_nominal * Sin(theta) + y_nominal * Cos(theta))

\* The plates, row letters and columns of the universe.  4 is a well count
\* with no entry in WELL_COUNT_TO_ROWS.
WellCounts == {6, 4}
LabmateCounts == {1, 2}
RowLetters == {"@", "A", "b", "C"}
MaxColumn == 4
Columns == 0..MaxColumn
PlateConfigs ==
    [well_count : WellCounts, row_count : LabmateCounts,
     col_count : LabmateCounts, a : Points, b : Points, c : Points]

InitWell ==
    /\ mpc = "pick"
    /\ plate_config \in PlateConfigs
    /\ row_letter \in RowLetters
    /\ column_index \in Columns
    /\ GetWellPosition(plate_config, RowIndex(row_letter),
                       ColIndex(column_index)).e # "irrational"
    /\ LabmateGetWellPosition(plate_config, RowIndex(row_letter),
                              ColIndex(column_index)).e # "irrational"
    /\ well = Null
    /\ labmate_well = Null
    /\ deck_config = Null
    /\ currentTool = "-1"
    /\ axes_homed = FALSE
    /\ protocol = <<>>
    /\ stack = <<>>
    /\ executed = <<>>
    /\ cleaned = <<>>
    /\ issued = <<>>
    /\ ended = "none"
    /\ PatchIdle
    /\ CtlIdle
    /\ SwIdle
    /\ TimeIdle

\* sonicate_well, lines 574-576, and the same indices given to Labmate's
\* mapper.
CallGetWellPosition ==
    /\ mpc = "pick"
    /\ well' = GetWellPosition(plate_config, RowIndex(row_letter),
                               ColIndex(column_index))
    /\ labmate_well' = LabmateGetWellPosition(plate_config,
                            RowIndex(row_letter), ColIndex(column_index))
    /\ mpc' = "done"
    /\ UNCHANGED <<plate_config, row_letter, column_index, stationVars,
                   patchVars, ctlVars, swVars, timeVars>>

SpecWell == InitWell /\ [][CallGetWellPosition]_vars

(***************************************************************************)
(* Claims about the well-position mappers (SpecWell).                      *)
(***************************************************************************)
Mapped == mpc = "done"
KnownPlate == plate_config.well_count \in DOMAIN WELL_COUNT_TO_ROWS
Rows == WELL_COUNT_TO_ROWS[plate_config.well_count][1]
Cols == WELL_COUNT_TO_ROWS[plate_config.well_count][2]
InBounds(row, col, rows, cols) ==
    0 <= row /\ row < rows /\ 0 <= col /\ col < cols

\* C27: for a plate of a known well count, _get_well_position yields a
\* coordinate only for 0 <= row < rowCount and 0 <= col < colCount, and for
\* every other (row, col) that sonicate_well computes from its row letter and
\* 1-based column it fails with the out-of-bounds error.
C27_WellIndexBounds ==
    (Mapped /\ KnownPlate) =>
        LET inside == InBounds(RowIndex(row_letter), ColIndex(column_index),
                               Rows, Cols)
        IN  /\ well.e = "ok" => inside
            /\ ~inside => well.e = "LookupError"

\* The plate of the example: a = (0, 0), b = (110, 0), c = (110, 110), not
\* rotated.
Unrotated(pl) ==
    pl.a = <<0, 0>> /\ pl.b = <<Side, 0>> /\ pl.c = <<Side, Side>>

\* Corner fidelity of a result res for a plate of rows x cols wells: a
\* coordinate returned for (0, 0) is reference point a, and on the unrotated
\* plate every well inside the plate gets
\* (a.x + col * width/(cols-1), a.y + row * height/(rows-1)).
CornerFidelity(res, rows, cols) ==
    LET row == RowIndex(row_letter)
        col == ColIndex(column_index)
    IN  /\ (row = 0 /\ col = 0 /\ res.e = "ok") =>
              res = At(plate_config.a[1], plate_config.a[2])
        /\ (Unrotated(plate_config) /\ InBounds(row, col, rows, cols)
               /\ Side % (cols - 1) = 0 /\ Side % (rows - 1) = 0) =>
              res = At(col * (Side \div (cols - 1)),
                       row * (Side \div (rows - 1)))

StationCornerFidelity ==
    (Mapped /\ KnownPlate) => CornerFidelity(well, Rows, Cols)

LabmateCornerFidelity ==
    (Mapped /\ plate_config.row_count > 1 /\ plate_config.col_count > 1) =>
        CornerFidelity(labmate_well, plate_config.row_count,
                       plate_config.col_count)

\* C29: both mappers have corner fidelity; on the unrotated plate with 2 x 2
\* wells that is (0, 0) for (row 0, col 0) and (110, 110) for (row 1, col 1).
C29_CornerFidelity == StationCornerFidelity /\ LabmateCornerFidelity

(***************************************************************************)
(* SpecStation: SonicationStation's protocol executor (execute_protocol),  *)
(* its two protocol operations sonicate_well and clean_sonicator, and      *)
(* setup_cleaning_protocol.  The controller underneath is taken as         *)
(* connected with its mirror filled; a command it sends is an entry of     *)
(* issued.                                                                 *)
(***************************************************************************)
MaxSteps == 2
MaxBaths == 1
MaxDepth == 3

\* The attributes of a SonicationStation that _collect_protocol_methods
\* walks over (dir(self)): marked says that the function, or the setter of
\* the property, carries is_protocol_method.
Attributes ==
    {[name |-> "sonicate_well", kind |-> "function", marked |-> TRUE],
     [name |-> "clean_sonicator", kind |-> "function", marked |-> TRUE],
     [name |-> "safe_z", kind |-> "property", marked |-> FALSE],
     [name |-> "idle_z", kind |-> "property", marked |-> FALSE],
     [name |-> "reset", kind |-> "function", marked |-> FALSE],
     [name |-> "gcode", kind |-> "function", marked |-> FALSE],
     [name |-> "move_xyz_absolute", kind |-> "function", marked |-> FALSE]}

\* _collect_protocol_methods with the test of lines 159 and 165 left out.
CollectProtocolMethods_All == {at.name : at \in Attributes}

\* _collect_protocol_methods, lines 140-167: the registry built by __init__.
CollectProtocolMethods == {at.name : at \in {x \in Attributes : x.marked}}

protocol_methods == CollectProtocolMethods

\* Deck slots, and the one plate a slot can hold: 6 wells, taught unrotated,
\* its top at height PlateHeight.
DeckIndices == {0, 1}
PlateHeight == 2
DeckPlate ==
    [well_count |-> 6, row_count |-> 2, col_count |-> 3,
     a |-> <<0, 0>>, b |-> <<Side, 0>>, c |-> <<Side, Side>>]

\* deck_config["cleaning_config"]: None, the {} of the blank configuration,
\* or a dict that holds a protocol.
NoCleaning == [kind |-> "None", protocol |-> <<>>]
BlankCleaning == [kind |-> "blank", protocol |-> <<>>]
Cleaning(p) == [kind |-> "set", protocol |-> p]

\* The steps of a protocol: {"operation": ..., "specs": {...}}.  self says
\* that specs holds the key 'self'; the specs of an operation other than
\* sonicate_well hold nothing else, and the other fields are left alone.
Wells == {<<"A", 1>>, <<"C", 1>>}
PlungeDepths == {1, 3}
SonicateSpecs(d, w, depth, ac) ==
    [deck_index |-> d, row_letter |-> w[1], column_index |-> w[2],
     plunge_depth |-> depth, autoclean |-> ac, self |-> FALSE]
NoSpecs == SonicateSpecs(0, <<"A", 1>>, 1, FALSE)
ProtocolSteps ==
    {[operation |-> "sonicate_well", specs |-> SonicateSpecs(d, w, depth, ac)] :
        d \in DeckIndices, w \in Wells, depth \in PlungeDepths, ac \in BOOLEAN}
    \cup {[operation |-> op, specs |-> NoSpecs] :
             op \in {"clean_sonicator", "reset", "move_xyz_absolute"}}
Protocols == UNION {[1..n -> ProtocolSteps] : n \in 0..MaxSteps}

\* setup_cleaning_protocol with "autoclean": True in the step it builds.
CleaningStep_Autoclean(d, w, depth) ==
    [operation |-> "sonicate_well", specs |-> SonicateSpecs(d, w, depth, TRUE)]

\* setup_cleaning_protocol, lines 403-412: the step built for one bath.
CleaningStep(d, w, depth) ==
    [operation |-> "sonicate_well", specs |-> SonicateSpecs(d, w, depth, FALSE)]

\* sonicate_well with the sonicator switched on before the plunge.
StepsFor_SonicateFirst(cmd) ==
    CASE cmd.operation = "sonicate_well" ->
             <<"check", "tool", "well", "retract", "travel", "sonicate",
               "plunge", "retract", "leave">>
             \o (IF cmd.specs.autoclean THEN <<"clean">> ELSE <<>>)
      [] cmd.operation = "clean_sonicator" -> <<"clean">>
      [] OTHER -> <<>>

\* The program of one operation, in order.
StepsFor(cmd) ==
    CASE cmd.operation = "sonicate_well" ->
             <<"check", "tool", "well", "retract", "travel", "plunge",
               "sonicate", "retract", "leave">>
             \o (IF cmd.specs.autoclean THEN <<"clean">> ELSE <<>>)
      [] cmd.operation = "clean_sonicator" -> <<"clean">>
      [] OTHER -> <<>>

\* The exceptions of the executor and of sonicate_well's checks.
NotProtocolMethod == "UserInputError: not a method that can be used in a protocol"
NoSafeZ == "MachineStateError: safe_z not defined"
NoCleaningStation == "MachineStateError: cleaning station not defined"
PlateNotConfigured == "UserInputError: deck plate is not configured"
PlungeTooDeep == "UserInputError: plunge depth is too deep"
NotHomed == "MachineStateError: machine must first be homed"

InitStation ==
    /\ deck_config \in [safe_z : BOOLEAN, plates : {{}, {0}},
                        cleaning_config : {NoCleaning, BlankCleaning,
                                           Cleaning(<<>>)}]
    /\ currentTool \in {"-1", "1"}
    /\ axes_homed \in BOOLEAN
    /\ protocol = <<>>
    /\ stack = <<>>
    /\ executed = <<>>
    /\ cleaned = <<>>
    /\ issued = <<>>
    /\ ended = "none"
    /\ mpc = "idle"
    /\ plate_config = Null
    /\ row_letter = "A"
    /\ column_index = 1
    /\ well = Null
    /\ labmate_well = Null
    /\ PatchIdle
    /\ CtlIdle
    /\ SwIdle
    /\ TimeIdle

Top == stack[Len(stack)]
SetTop(f) == [stack EXCEPT ![Len(stack)] = f]
AtStep(name) == stack # <<>> /\ Top.todo # <<>> /\ Head(Top.todo) = name
ListOf(f) ==
    IF f.proto = "top" THEN protocol ELSE deck_config.cleaning_config.protocol
Current == ListOf(Top)[Top.i]
Zeros(list) == [j \in 1..Len(list) |-> 0]

\* The current operation goes on to its next statement.
Proceed == stack' = SetTop([Top EXCEPT !.todo = Tail(@)])

\* An exception leaves every call in progress.
Throw(e) == stack' = <<>> /\ ended' = e

\* execute_protocol with every step looked up before the first is run.
CallExecuteProtocol_ValidateFirst ==
    /\ stack = <<>> /\ protocol = <<>>
    /\ \E p \in Protocols :
          /\ protocol' = p
          /\ executed' = Zeros(p)
          /\ IF \E k \in DOMAIN p : p[k].operation \notin protocol_methods
             THEN stack' = <<>> /\ ended' = NotProtocolMethod
             ELSE /\ stack' = <<[proto |-> "top", i |-> 0, todo |-> <<>>]>>
                  /\ ended' = "running"
    /\ cleaned' = Zeros(deck_config.cleaning_config.protocol)
    /\ issued' = <<>>
    /\ UNCHANGED <<deck_config, currentTool, axes_homed, wellVars,
                   patchVars, ctlVars, swVars, timeVars>>

\* The user calls execute_protocol(protocol): one protocol is run after
\* construction and after every setup_cleaning_protocol.
CallExecuteProtocol ==
    /\ stack = <<>> /\ protocol = <<>>
    /\ \E p \in Protocols :
          /\ protocol' = p
          /\ executed' = Zeros(p)
    /\ stack' = <<[proto |-> "top", i |-> 0, todo |-> <<>>]>>
    /\ cleaned' = Zeros(deck_config.cleaning_config.protocol)
    /\ issued' = <<>>
    /\ ended' = "running"
    /\ UNCHANGED <<deck_config, currentTool, axes_homed, wellVars,
                   patchVars, ctlVars, swVars, timeVars>>

\* The user calls setup_cleaning_protocol and enters the baths (lines
\* 353-422): the protocol is stored when the last bath has been entered.
CallSetupCleaningProtocol ==
    /\ stack = <<>>
    /\ \E n \in 1..MaxBaths :
       \E bath \in [1..n -> DeckIndices \X Wells \X PlungeDepths] :
          IF ~deck_config.safe_z
          THEN ended' = NoSafeZ /\ UNCHANGED deck_config
          ELSE IF deck_config.cleaning_config.kind = "None"
          THEN ended' = "TypeError" /\ UNCHANGED deck_config
          ELSE /\ ended' = "ok"
               /\ deck_config' =
                     [deck_config EXCEPT !.cleaning_config =
                        Cleaning([j \in 1..n |->
                            CleaningStep(bath[j][1], bath[j][2], bath[j][3])])]
    /\ protocol' = <<>>
    /\ executed' = <<>>
    /\ cleaned' = <<>>
    /\ issued' = <<>>
    /\ UNCHANGED <<currentTool, axes_homed, stack, wellVars,
                   patchVars, ctlVars, swVars, timeVars>>

\* execute_protocol, line 607: the list is exhausted and the call returns.
ExecuteReturn ==
    /\ stack # <<>> /\ Top.todo = <<>>
    /\ Top.i = Len(ListOf(Top))
    /\ stack' = SubSeq(stack, 1, Len(stack) - 1)
    /\ ended' = IF Len(stack) = 1 THEN "ok" ELSE ended
    /\ UNCHANGED <<deck_config, currentTool, axes_homed, protocol, executed,
                   cleaned, issued, wellVars, patchVars, ctlVars, swVars,
                   timeVars>>

\* execute_protocol, lines 608-609: the next step names no protocol method.
ExecuteReject ==
    /\ stack # <<>> /\ Top.todo = <<>>
    /\ Top.i < Len(ListOf(Top))
    /\ ListOf(Top)[Top.i + 1].operation \notin protocol_methods
    /\ Throw(NotProtocolMethod)
    /\ UNCHANGED <<deck_config, currentTool, axes_homed, protocol, executed,
                   cleaned, issued, wellVars, patchVars, ctlVars, swVars,
                   timeVars>>

\* execute_protocol, lines 610-613: the next step is looked up, 'self' is
\* stored in its specs and the method is called.
ExecuteInvoke ==
    /\ stack # <<>> /\ Top.todo = <<>>
    /\ Top.i < Len(ListOf(Top))
    /\ LET k == Top.i + 1
           cmd == ListOf(Top)[k]
       IN  /\ cmd.operation \in protocol_methods
           /\ stack' = SetTop([Top EXCEPT !.i = k, !.todo = StepsFor(cmd)])
           /\ IF Top.proto = "top"
              THEN /\ protocol' = [protocol EXCEPT ![k].specs.self = TRUE]
                   /\ executed' = [executed EXCEPT ![k] = @ + 1]
                   /\ UNCHANGED <<deck_config, cleaned>>
              ELSE /\ deck_config' =
                        [deck_config EXCEPT
                            !.cleaning_config.protocol[k].specs.self = TRUE]
                   /\ cleaned' = [cleaned EXCEPT ![k] = @ + 1]
                   /\ UNCHANGED <<protocol, executed>>
    /\ UNCHANGED <<currentTool, axes_homed, issued, ended, wellVars,
                   patchVars, ctlVars, swVars, timeVars>>

\* sonicate_well: the wrappers requires_safe_z and requires_cleaning_station
\* (lines 26-29, 35-38) and the checks of lines 560-569.
SonicateCheck ==
    /\ AtStep("check")
    /\ LET specs == Current.specs
       IN  IF ~deck_config.safe_z THEN Throw(NoSafeZ)
           ELSE IF deck_config.cleaning_config.kind = "None"
           THEN Throw(NoCleaningStation)
           ELSE IF specs.deck_index \notin deck_config.plates
           THEN Throw(PlateNotConfigured)
           ELSE IF PlateHeight - specs.plunge_depth < 0
           THEN Throw(PlungeTooDeep)
           ELSE Proceed /\ UNCHANGED ended
    /\ UNCHANGED <<deck_config, currentTool, axes_homed, protocol, executed,
                   cleaned, issued, wellVars, patchVars, ctlVars, swVars,
                   timeVars>>

\* sonicate_well, lines 571-572: the sonicator is picked up unless the mirror
\* shows it as the active tool; the mirror follows the firmware at its own
\* pace.
SonicatePickup ==
    /\ AtStep("tool")
    /\ IF currentTool # "1"
       THEN /\ issued' = Append(issued, "T1")
            /\ currentTool' \in {currentTool, "1"}
       ELSE UNCHANGED <<issued, currentTool>>
    /\ Proceed
    /\ UNCHANGED <<deck_config, axes_homed, protocol, executed, cleaned,
                   ended, wellVars, patchVars, ctlVars, swVars, timeVars>>

\* sonicate_well, lines 574-576.
SonicateLocate ==
    /\ AtStep("well")
    /\ LET specs == Current.specs
           at == GetWellPosition(DeckPlate, RowIndex(specs.row_letter),
                                 ColIndex(specs.column_index))
       IN  IF at.e = "ok" THEN Proceed /\ UNCHANGED ended ELSE Throw(at.e)
    /\ UNCHANGED <<deck_config, currentTool, axes_homed, protocol, executed,
                   cleaned, issued, wellVars, patchVars, ctlVars, swVars,
                   timeVars>>

\* A move of the controller underneath: refused by machine_is_homed, or its
\* commands sent.
Move(cmds) ==
    IF axes_homed
    THEN issued' = issued \o cmds /\ Proceed /\ UNCHANGED ended
    ELSE Throw(NotHomed) /\ UNCHANGED issued

\* move_xy_absolute, lines 235-236: the retract to safe_z.
StationRetract ==
    /\ AtStep("retract")
    /\ IF deck_config.safe_z
       THEN Move(<<"G0 Z safe_z">>)
       ELSE Proceed /\ UNCHANGED <<issued, ended>>
    /\ UNCHANGED <<deck_config, currentTool, axes_homed, protocol, executed,
                   cleaned, wellVars, patchVars, ctlVars, swVars, timeVars>>

\* move_xy_absolute, line 238: to the well (line 579), or with no axes
\* (line 584).
StationTravel ==
    /\ AtStep("travel") \/ AtStep("leave")
    /\ Move(IF AtStep("travel") THEN <<"G0 XY">> ELSE <<"G0">>)
    /\ UNCHANGED <<deck_config, currentTool, axes_homed, protocol, executed,
                   cleaned, wellVars, patchVars, ctlVars, swVars, timeVars>>

\* sonicate_well, line 580: the plunge, with wait=True, so that _move_xyz
\* sends M400 after the move and returns when the machine has stopped.
SonicatePlunge ==
    /\ AtStep("plunge")
    /\ Move(<<"G0 Z plunge", "M400">>)
    /\ UNCHANGED <<deck_config, currentTool, axes_homed, protocol, executed,
                   cleaned, wellVars, patchVars, ctlVars, swVars, timeVars>>

\* sonicate_well, line 582: Sonicator.sonicate switches the sonicator on
\* for its pulses and leaves with it switched off (sonicator.py, line 68).
Sonicate ==
    /\ AtStep("sonicate")
    /\ issued' = issued \o <<"sonicator on", "sonicator off">>
    /\ Proceed
    /\ UNCHANGED <<deck_config, currentTool, axes_homed, protocol, executed,
                   cleaned, ended, wellVars, patchVars, ctlVars, swVars,
                   timeVars>>

\* clean_sonicator (lines 589-595), called by a step or by sonicate_well at
\* line 586: the two wrappers, the lookup of the stored protocol, and the
\* nested execute_protocol.  Python ends a recursion that goes too deep.
CleanSonicator ==
    /\ AtStep("clean")
    /\ IF ~deck_config.safe_z
       THEN Throw(NoSafeZ) /\ UNCHANGED cleaned
       ELSE IF deck_config.cleaning_config.kind = "None"
       THEN Throw(NoCleaningStation) /\ UNCHANGED cleaned
       ELSE IF deck_config.cleaning_config.kind = "blank"
       THEN Throw("KeyError") /\ UNCHANGED cleaned
       ELSE IF Len(stack) >= MaxDepth
       THEN Throw("RecursionError") /\ UNCHANGED cleaned
       ELSE /\ stack' = Append(SetTop([Top EXCEPT !.todo = Tail(@)]),
                               [proto |-> "cleaning", i |-> 0, todo |-> <<>>])
            /\ cleaned' = Zeros(deck_config.cleaning_config.protocol)
            /\ UNCHANGED ended
    /\ UNCHANGED <<deck_config, currentTool, axes_homed, protocol, executed,
                   issued, wellVars, patchVars, ctlVars, swVars, timeVars>>

NextStation ==
    \/ CallExecuteProtocol
    \/ CallSetupCleaningProtocol
    \/ ExecuteReturn
    \/ ExecuteReject
    \/ ExecuteInvoke
    \/ SonicateCheck
    \/ SonicatePickup
    \/ SonicateLocate
    \/ StationRetract
    \/ StationTravel
    \/ SonicatePlunge
    \/ Sonicate
    \/ CleanSonicator

SpecStation == InitStation /\ [][NextStation]_vars

(***************************************************************************)
(* Claims about the protocol executor (SpecStation).                       *)
(***************************************************************************)
Marked(name) == \E at \in Attributes : at.name = name /\ at.marked

\* C24: the steps of a protocol are invoked in list order, each at most once;
\* when execute_protocol has failed with the unknown-operation error there is
\* a step k of an unregistered operation such that every step before k has
\* been invoked exactly once and neither k nor any later step has been
\* invoked.
C24_PartialExecution ==
    /\ \A j \in DOMAIN executed :
          /\ executed[j] <= 1
          /\ executed[j] = 1 => \A i \in 1..(j - 1) : executed[i] = 1
    /\ ended = NotProtocolMethod =>
          \E k \in DOMAIN protocol :
             /\ ~Marked(protocol[k].operation)
             /\ \A j \in 1..(k - 1) : executed[j] = 1
             /\ \A j \in k..Len(protocol) : executed[j] = 0

\* A protocol of two steps has failed at its second step after its first has
\* sent commands.
C24_Witness ==
    /\ ended = NotProtocolMethod
    /\ executed = <<1, 0>>
    /\ protocol[1].operation = "sonicate_well"
    /\ issued # <<>>

\* C25: the registry holds sonicate_well and clean_sonicator and nothing
\* else; a step that has been invoked, and the operation in progress, name a
\* marked attribute; and the lookup is made when the step is reached: a call
\* of execute_protocol always starts, whatever its steps name, and the
\* unknown-operation error is raised only at the loop head in front of a step
\* that names an unmarked attribute.
C25_AllowList ==
    /\ [](/\ protocol_methods = {"sonicate_well", "clean_sonicator"}
          /\ \A j \in DOMAIN executed :
                executed[j] > 0 => Marked(protocol[j].operation)
          /\ (stack # <<>> /\ Top.i > 0) => Marked(Current.operation))
    /\ [][/\ (stack = <<>> /\ protocol' # protocol /\ protocol' # <<>>) =>
                (ended' = "running" /\ stack' # <<>>)
          /\ (ended' = NotProtocolMethod /\ ended # NotProtocolMethod) =>
                /\ stack # <<>> /\ Top.todo = <<>>
                /\ Top.i < Len(ListOf(Top))
                /\ ~Marked(ListOf(Top)[Top.i + 1].operation)]_vars

\* clean_sonicator has run as the first step of a protocol, and the second
\* step, which names move_xyz_absolute, has been rejected.
C25_Witness ==
    /\ ended = NotProtocolMethod
    /\ Len(protocol) = 2
    /\ protocol[1].operation = "clean_sonicator"
    /\ protocol[2].operation = "move_xyz_absolute"
    /\ executed = <<1, 0>>

CleanDepth == Cardinality({n \in DOMAIN stack : stack[n].proto = "cleaning"})
CycleDone ==
    /\ stack # <<>> /\ Top.proto = "cleaning"
    /\ Top.todo = <<>> /\ Top.i = Len(ListOf(Top))

\* C26: every step of the stored cleaning protocol carries autoclean = False;
\* clean_sonicator is never entered while a cleaning cycle is under way; no
\* stored step is invoked twice in a cycle, and a cycle that has come to its
\* end has invoked each stored step exactly once.
C26_CleaningNeverRecurses ==
    /\ \A j \in DOMAIN deck_config.cleaning_config.protocol :
          ~deck_config.cleaning_config.protocol[j].specs.autoclean
    /\ CleanDepth <= 1
    /\ \A j \in DOMAIN cleaned : cleaned[j] <= 1
    /\ CycleDone => \A j \in DOMAIN cleaned : cleaned[j] = 1

\* A cleaning cycle started by sonicate_well's autoclean has come to its end
\* after sonicating in its bath.
C26_Witness ==
    /\ CycleDone
    /\ cleaned = <<1>>
    /\ Len(stack) = 2
    /\ protocol[1].operation = "sonicate_well"
    /\ Len(SelectSeq(issued, LAMBDA c : c = "sonicator on")) = 2

\* C28: when sonicate_well, called as the first step of a protocol and
\* without autoclean, has failed one of its precondition or input checks, no
\* tool change and no motion command has been sent and the sonicator has not
\* been switched on.
ValidationErrors ==
    {NoSafeZ, NoCleaningStation, PlateNotConfigured, PlungeTooDeep,
     "LookupError"}
C28_ValidationNoSideEffects ==
    (/\ ended \in ValidationErrors
     /\ Len(protocol) >= 1
     /\ protocol[1].operation = "sonicate_well"
     /\ ~protocol[1].specs.autoclean
     /\ executed[1] = 1
     /\ \A j \in 2..Len(protocol) : executed[j] = 0) => issued = <<>>

\* C38: when execute_protocol has returned or failed, the specs of every
\* step of the protocol it was given, and of the stored cleaning protocol,
\* hold the keys they held before the call: none has gained the key 'self'.
C38_ProtocolUnmodified ==
    (stack = <<>> /\ ended \notin {"none", "running"}) =>
        /\ \A j \in DOMAIN protocol : ~protocol[j].specs.self
        /\ \A j \in DOMAIN deck_config.cleaning_config.protocol :
              ~deck_config.cleaning_config.protocol[j].specs.self

TravelCommands == {"G0 Z safe_z", "G0 XY", "G0 Z plunge", "G0"}

\* A cleaning cycle that sonicate_well's autoclean has started and that has
\* not reached its first step yet.
AutocleanBegins ==
    /\ Len(stack) >= 2
    /\ protocol[stack[1].i].operation = "sonicate_well"
    /\ stack[2].i = 0

\* C39: the sonicator is switched on only right after the XY move over the
\* well, the plunge and the M400 that waits for the plunge, in this order; it
\* is switched off before the next command, so that no travel command is
\* issued with the sonicator on and the retract follows the switching off;
\* and a cleaning cycle that sonicate_well starts begins after the retract
\* and the move that follows it.
C39_SonicationOrder ==
    /\ \A i \in DOMAIN issued :
          issued[i] = "sonicator on" =>
             /\ i >= 4
             /\ <<issued[i - 3], issued[i - 2], issued[i - 1]>>
                   = <<"G0 XY", "G0 Z plunge", "M400">>
             /\ i < Len(issued) /\ issued[i + 1] = "sonicator off"
    /\ \A i \in DOMAIN issued :
          issued[i] \in TravelCommands =>
             \A j \in 1..(i - 1) :
                issued[j] = "sonicator on" =>
                   \E k \in (j + 1)..(i - 1) : issued[k] = "sonicator off"
    /\ \A i \in DOMAIN issued :
          (issued[i] = "sonicator off" /\ i < Len(issued)) =>
             issued[i + 1] = "G0 Z safe_z"
    /\ AutocleanBegins =>
          /\ Len(issued) >= 3
          /\ SubSeq(issued, Len(issued) - 2, Len(issued))
                = <<"sonicator off", "G0 Z safe_z", "G0">>

\* sonicate_well has sonicated a well and has started the cleaning cycle.
C39_Witness ==
    /\ AutocleanBegins
    /\ \E i \in DOMAIN issued : issued[i] = "sonicator on"
====
